---- MODULE Spec2Model ----
(***************************************************************************)
(* ts-weathermap: the SNMP counter sampler (snmp.ts), the metrics resolver *)
(* and the poll loop (backend.ts).                                         *)
(*                                                                         *)
(* Conventions of the model                                                *)
(*   - an optional value (T | null | undefined) is a sequence of length 0  *)
(*     or 1: Null is <<>>, Some(v) is <<v>>;                               *)
(*   - an optional string (error?: string) is a string, "" when absent:    *)
(*     the code only ever tests it with Boolean(error);                    *)
(*   - a JavaScript number that is the result of a division is an exact    *)
(*     rational [n, d] in lowest terms with d > 0 (IEEE rounding is not    *)
(*     modelled); octet counters, timestamps and capacities are integers;  *)
(*   - a raw OID string is the sequence of its "."-separated segments      *)
(*     after trim(), so "" is <<"">> and ".1.3" is <<"", "1", "3">>; an    *)
(*     absent optional OID is <<>>.                                        *)
(***************************************************************************)
EXTENDS Integers, Sequences, FiniteSets, TLC

(***************************************************************************)
(* Bounds of the model.                                                    *)
(***************************************************************************)
\* octet counters read from the OIDs 1.3.6.2 and 1.3.6.3 are 9 * k, k in 0..MaxCount
MaxCount == 1
\* Date.now() of a cycle is 1000 * k milliseconds, k in 0..MaxTick
MaxTick == 1
\* number of poll cycles started in a behaviour
MaxCycles == 2

Null == <<>>
Some(v) == <<v>>
IsNull(o) == o = <<>>
Val(o) == o[1]

(***************************************************************************)
(* Exact rationals for the results of "/".                                 *)
(***************************************************************************)
Abs(x) == IF x < 0 THEN -x ELSE x

RECURSIVE GCD(_, _)
GCD(a, b) == IF b = 0 THEN a ELSE GCD(b, a % b)

\* n / d for d # 0, in lowest terms with a positive denominator
Rat(n, d) ==
    LET g == GCD(Abs(n), Abs(d))
        s == IF d < 0 THEN -1 ELSE 1
    IN  [n |-> s * (n \div g), d |-> s * (d \div g)]

Zero == Rat(0, 1)
RatDiv(p, q) == Rat(p.n * q.d, p.d * q.n)
RatGeq(p, q) == p.n * q.d >= q.n * p.d
\* Math.max(p, q): the second operand only when it is strictly larger
RatMax(p, q) == IF RatGeq(p, q) THEN p ELSE q


(***************************************************************************)
(* snmp.ts: the counter sampler.                                           *)
(***************************************************************************)
STATUS_ORDER == <<"ok", "warning", "critical", "error">>

\* STATUS_ORDER.indexOf(s)
IndexOfStatus(s) == CHOOSE i \in 1..Len(STATUS_ORDER) : STATUS_ORDER[i] = s

\* /^\d+$/ on the segments the model uses
NumericSegments == {"1", "2", "3", "6"}

(* A YAML scalar that is a number (oid_in: 1) reaches the sampler as a       *)
(* JavaScript number: yaml.load is cast to RawConfig unchecked and the      *)
(* loader tests oid_in and oid_out for truthiness only.                     *)
NumberOid == <<"number">>

\* raw.trim() on a value that is not a string: sanitizeOid throws a TypeError
sanitizeOidThrows(raw) == raw = NumberOid

\* sanitizeOid(raw): {oid, error}
sanitizeOid(raw) ==
    IF raw = <<"">>
    THEN [oid |-> Null, error |-> "OID is required"]
    ELSE LET segments == SelectSeq(raw, LAMBDA seg : seg # "")
             bad == {i \in 1..Len(segments) : segments[i] \notin NumericSegments}
         IN  IF Len(segments) = 0
             THEN [oid |-> Null, error |-> "OID is not a dotted numeric string"]
             ELSE IF bad # {}
             THEN [oid |-> Null,
                   error |-> "OID contains invalid segment "
                                \o segments[CHOOSE i \in bad : \A j \in bad : i <= j]]
             ELSE [oid |-> Some(segments), error |-> ""]

\* metricStatus with > in place of >=
metricStatusStrictMutant(utilization, hasError) ==
    IF hasError THEN "error"
    ELSE IF RatGeq(utilization, Rat(9, 10)) /\ utilization # Rat(9, 10) THEN "critical"
    ELSE IF RatGeq(utilization, Rat(75, 100)) /\ utilization # Rat(75, 100) THEN "warning"
    ELSE "ok"

\* metricStatus(utilization, hasError)
metricStatus(utilization, hasError) ==
    IF hasError THEN "error"
    ELSE IF RatGeq(utilization, Rat(9, 10)) THEN "critical"
    ELSE IF RatGeq(utilization, Rat(75, 100)) THEN "warning"
    ELSE "ok"

RECURSIVE ReduceStatuses(_, _)
ReduceStatuses(statuses, highest) ==
    IF statuses = <<>> THEN highest
    ELSE ReduceStatuses(Tail(statuses),
            IF IndexOfStatus(Head(statuses)) > IndexOfStatus(highest)
            THEN Head(statuses) ELSE highest)

\* combineStatuses(statuses)
combineStatuses(statuses) == ReduceStatuses(statuses, "ok")

(* A varbind of a response: kind "num" carries a JavaScript number, kind    *)
(* "other" a value of another type (a Buffer, null), kind "error" is a      *)
(* varbind snmp.isVarbindError accepts (noSuchObject, noSuchInstance, ...). *)
isVarbindError(varbind) == varbind.kind = "error"
varbindError(varbind) == "NoSuchInstance"

\* parseNumericValue(varbind)
parseNumericValue(varbind) ==
    IF varbind.kind = "num" THEN Some(varbind.value) ELSE Null

\* computeThroughput giving octets per second
computeThroughputNoScaleMutant(current, previous, deltaMs, direction) ==
    IF IsNull(current) \/ IsNull(previous) \/ deltaMs <= 0
    THEN [bps |-> Zero, fresh |-> FALSE]
    ELSE LET previousValue == IF direction = "in" THEN Val(previous).inOctets
                                                  ELSE Val(previous).outOctets
         IN  IF Val(current) < previousValue
             THEN [bps |-> Zero, fresh |-> FALSE]
             ELSE [bps |-> RatDiv(Rat(Val(current) - previousValue, 1), Rat(deltaMs, 1000)),
                   fresh |-> TRUE]

\* computeThroughput without the test for a counter that went down
computeThroughputWrapMutant(current, previous, deltaMs, direction) ==
    IF IsNull(current) \/ IsNull(previous) \/ deltaMs <= 0
    THEN [bps |-> Zero, fresh |-> FALSE]
    ELSE LET previousValue == IF direction = "in" THEN Val(previous).inOctets
                                                  ELSE Val(previous).outOctets
         IN  IF Val(current) < previousValue
             THEN [bps |-> RatDiv(Rat(Val(current) * 8, 1), Rat(deltaMs, 1000)),
                   fresh |-> TRUE]
             ELSE [bps |-> RatDiv(Rat((Val(current) - previousValue) * 8, 1),
                                  Rat(deltaMs, 1000)),
                   fresh |-> TRUE]

\* computeThroughput(current, previous, deltaMs, direction): {bps, fresh}
computeThroughput(current, previous, deltaMs, direction) ==
    IF IsNull(current) \/ IsNull(previous) \/ deltaMs <= 0
    THEN [bps |-> Zero, fresh |-> FALSE]
    ELSE LET previousValue == IF direction = "in" THEN Val(previous).inOctets
                                                  ELSE Val(previous).outOctets
         IN  IF Val(current) < previousValue
             THEN [bps |-> Zero, fresh |-> FALSE]
             ELSE LET octetDelta == Val(current) - previousValue
                      bits == octetDelta * 8
                      seconds == Rat(deltaMs, 1000)
                  IN  IF seconds = Zero
                      THEN [bps |-> Zero, fresh |-> FALSE]
                      ELSE [bps |-> RatDiv(Rat(bits, 1), seconds), fresh |-> TRUE]

\* makeInterfaceSample(iface)
makeInterfaceSample(iface) ==
    [name |-> iface.name,
     inOctets |-> Null,
     outOctets |-> Null,
     inBps |-> Zero,
     outBps |-> Zero,
     inUtilization |-> Zero,
     outUtilization |-> Zero,
     status |-> "ok",
     maxBandwidth |-> IF iface.max_bandwidth > 0 THEN iface.max_bandwidth ELSE 0,
     fresh |-> FALSE,
     error |-> ""]

\* cacheKey(routerId, ifaceName)
cacheKey(routerId, ifaceName) == routerId \o ":" \o ifaceName

\* sampleCache.get(key)
CacheGet(cache, key) == IF key \in DOMAIN cache THEN Some(cache[key]) ELSE Null

\* sampleCache.set(key, entry)
CacheSet(cache, key, entry) == (key :> entry) @@ cache


\* the truthiness of an optional OID string: present and not ""
HasOid(raw) == raw # <<>> /\ raw # <<"">>

WithError(ifaceSample, message) ==
    [ifaceSample EXCEPT !.error = message, !.status = "error"]

(* pollRouter, the loop body after its three sanitizeOid calls: the sample   *)
(* with the sanitize errors and the probe entries, from the three results.   *)
PrepareSanitized(iface, sanitizedIn, sanitizedOut, sanitizedSpeed) ==
    LET s0 == makeInterfaceSample(iface)
        e1 == IF ~IsNull(sanitizedIn.oid)
              THEN <<[oid |-> Val(sanitizedIn.oid), kind |-> "in"]>> ELSE <<>>
        s1 == IF IsNull(sanitizedIn.oid) /\ sanitizedIn.error # ""
              THEN WithError(s0, sanitizedIn.error) ELSE s0
        e2 == IF ~IsNull(sanitizedOut.oid)
              THEN Append(e1, [oid |-> Val(sanitizedOut.oid), kind |-> "out"]) ELSE e1
        s2 == IF IsNull(sanitizedOut.oid) /\ sanitizedOut.error # ""
              THEN WithError(s1, sanitizedOut.error) ELSE s1
        e3 == IF HasOid(iface.oid_speed) /\ ~IsNull(sanitizedSpeed.oid)
              THEN Append(e2, [oid |-> Val(sanitizedSpeed.oid), kind |-> "speed"]) ELSE e2
        s3 == IF HasOid(iface.oid_speed) /\ IsNull(sanitizedSpeed.oid)
                 /\ sanitizedSpeed.error # ""
              THEN WithError(s2, sanitizedSpeed.error) ELSE s2
    IN  [iface |-> iface,
         entries |-> e3,
         hasCounters |-> ~IsNull(sanitizedIn.oid) \/ ~IsNull(sanitizedOut.oid),
         sample |-> s3]

(* pollRouter, the loop that builds one interface's sample and probe target: *)
(* {iface, entries, hasCounters} and the sample with its sanitize errors.    *)
PrepareInterface(iface) ==
    PrepareSanitized(iface, sanitizeOid(iface.oid_in), sanitizeOid(iface.oid_out),
                     sanitizeOid(iface.oid_speed))

TargetLabel(kind) ==
    IF kind = "speed" THEN "speed" ELSE IF kind = "in" THEN "input" ELSE "output"

\* the forEach body without the speed scale
ApplyVarbindUnscaledMutant(ifaceSample, varbind, entries, index, scale) ==
    IF index > Len(entries) THEN ifaceSample
    ELSE LET meta == entries[index]
             numericValue == parseNumericValue(varbind)
         IN  IF isVarbindError(varbind)
             THEN WithError(ifaceSample, varbindError(varbind))
             ELSE IF IsNull(numericValue)
             THEN WithError(ifaceSample,
                    "Unexpected value type for " \o TargetLabel(meta.kind) \o " OID")
             ELSE IF meta.kind = "speed"
             THEN IF Val(numericValue) > 0
                  THEN [ifaceSample EXCEPT !.maxBandwidth = Val(numericValue)]
                  ELSE ifaceSample
             ELSE IF meta.kind = "in"
             THEN [ifaceSample EXCEPT !.inOctets = numericValue]
             ELSE [ifaceSample EXCEPT !.outOctets = numericValue]

\* the body of varbinds.forEach((varbind, index) => ...)
ApplyVarbind(ifaceSample, varbind, entries, index, scale) ==
    IF index > Len(entries) THEN ifaceSample
    ELSE LET meta == entries[index]
             numericValue == parseNumericValue(varbind)
         IN  IF isVarbindError(varbind)
             THEN WithError(ifaceSample, varbindError(varbind))
             ELSE IF IsNull(numericValue)
             THEN WithError(ifaceSample,
                    "Unexpected value type for " \o TargetLabel(meta.kind) \o " OID")
             ELSE IF meta.kind = "speed"
             THEN IF Val(numericValue) > 0
                  THEN [ifaceSample EXCEPT !.maxBandwidth = Val(numericValue) * scale]
                  ELSE ifaceSample
             ELSE IF meta.kind = "in"
             THEN [ifaceSample EXCEPT !.inOctets = numericValue]
             ELSE [ifaceSample EXCEPT !.outOctets = numericValue]

RECURSIVE ApplyVarbinds(_, _, _, _, _)
ApplyVarbinds(ifaceSample, varbinds, entries, index, scale) ==
    IF index > Len(varbinds) THEN ifaceSample
    ELSE ApplyVarbinds(ApplyVarbind(ifaceSample, varbinds[index], entries, index, scale),
                       varbinds, entries, index + 1, scale)

\* the probe loop body with a catch that records nothing
ProbeInterfaceSilentMutant(target, response) ==
    IF ~target.hasCounters \/ Len(target.entries) = 0 THEN target.sample
    ELSE IF response.err # "" THEN target.sample
    ELSE LET scale == IF target.iface.oid_speed_scale > 0
                      THEN target.iface.oid_speed_scale ELSE 1
         IN  ApplyVarbinds(target.sample, response.varbinds, target.entries, 1, scale)

(* pollRouter, one turn of the probe loop: the target's sample after the    *)
(* response {err, varbinds} of getVarbinds(session, oidList).               *)
ProbeInterface(target, response) ==
    IF ~target.hasCounters \/ Len(target.entries) = 0 THEN target.sample
    ELSE IF response.err # "" THEN WithError(target.sample, response.err)
    ELSE LET scale == IF target.iface.oid_speed_scale > 0
                      THEN target.iface.oid_speed_scale ELSE 1
         IN  ApplyVarbinds(target.sample, response.varbinds, target.entries, 1, scale)

\* the closing loop body writing its fallback denominator to the sample
FinishInterfaceFallbackMutant(ifaceSample, previous, now) ==
    LET deltaMs == IF ~IsNull(previous) THEN now - Val(previous).timestamp ELSE 0
        inResult == computeThroughput(ifaceSample.inOctets, previous, deltaMs, "in")
        outResult == computeThroughput(ifaceSample.outOctets, previous, deltaMs, "out")
        maxBandwidth == IF ifaceSample.maxBandwidth > 0 THEN ifaceSample.maxBandwidth ELSE 1
        inUtilization == RatDiv(inResult.bps, Rat(maxBandwidth, 1))
        outUtilization == RatDiv(outResult.bps, Rat(maxBandwidth, 1))
        util == RatMax(inUtilization, outUtilization)
        hasError == ifaceSample.error # ""
    IN  [ifaceSample EXCEPT !.inBps = inResult.bps,
                            !.outBps = outResult.bps,
                            !.inUtilization = inUtilization,
                            !.outUtilization = outUtilization,
                            !.maxBandwidth = maxBandwidth,
                            !.status = metricStatus(util, hasError),
                            !.fresh = inResult.fresh /\ outResult.fresh]

\* the closing loop body marking the sample fresh when either rate is
FinishInterfaceEitherFreshMutant(ifaceSample, previous, now) ==
    LET deltaMs == IF ~IsNull(previous) THEN now - Val(previous).timestamp ELSE 0
        inResult == computeThroughput(ifaceSample.inOctets, previous, deltaMs, "in")
        outResult == computeThroughput(ifaceSample.outOctets, previous, deltaMs, "out")
        maxBandwidth == IF ifaceSample.maxBandwidth > 0 THEN ifaceSample.maxBandwidth ELSE 1
        inUtilization == RatDiv(inResult.bps, Rat(maxBandwidth, 1))
        outUtilization == RatDiv(outResult.bps, Rat(maxBandwidth, 1))
        util == RatMax(inUtilization, outUtilization)
        hasError == ifaceSample.error # ""
    IN  [ifaceSample EXCEPT !.inBps = inResult.bps,
                            !.outBps = outResult.bps,
                            !.inUtilization = inUtilization,
                            !.outUtilization = outUtilization,
                            !.status = metricStatus(util, hasError),
                            !.fresh = inResult.fresh \/ outResult.fresh]

(* pollRouter, one turn of the closing loop: rates, utilization, status and *)
(* freshness of one interface against its cache entry `previous`.           *)
FinishInterface(ifaceSample, previous, now) ==
    LET deltaMs == IF ~IsNull(previous) THEN now - Val(previous).timestamp ELSE 0
        inResult == computeThroughput(ifaceSample.inOctets, previous, deltaMs, "in")
        outResult == computeThroughput(ifaceSample.outOctets, previous, deltaMs, "out")
        maxBandwidth == IF ifaceSample.maxBandwidth > 0 THEN ifaceSample.maxBandwidth ELSE 1
        inUtilization == RatDiv(inResult.bps, Rat(maxBandwidth, 1))
        outUtilization == RatDiv(outResult.bps, Rat(maxBandwidth, 1))
        util == RatMax(inUtilization, outUtilization)
        hasError == ifaceSample.error # ""
    IN  [ifaceSample EXCEPT !.inBps = inResult.bps,
                            !.outBps = outResult.bps,
                            !.inUtilization = inUtilization,
                            !.outUtilization = outUtilization,
                            !.status = metricStatus(util, hasError),
                            !.fresh = inResult.fresh /\ outResult.fresh]

\* the closing loop keeping the old entry when a counter was read below it
StoreInterfaceSkipsWrapMutant(cache, key, ifaceSample, now) ==
    IF /\ ~IsNull(ifaceSample.inOctets) /\ ~IsNull(ifaceSample.outOctets)
       /\ \/ key \notin DOMAIN cache
          \/ /\ Val(ifaceSample.inOctets) >= cache[key].inOctets
             /\ Val(ifaceSample.outOctets) >= cache[key].outOctets
    THEN CacheSet(cache, key, [inOctets |-> Val(ifaceSample.inOctets),
                               outOctets |-> Val(ifaceSample.outOctets),
                               timestamp |-> now])
    ELSE cache

\* the closing loop writing an entry as soon as the out counter was read
StoreInterfaceOnOutCounterMutant(cache, key, ifaceSample, now) ==
    IF ~IsNull(ifaceSample.outOctets)
    THEN CacheSet(cache, key, [inOctets |-> IF IsNull(ifaceSample.inOctets) THEN 0
                                            ELSE Val(ifaceSample.inOctets),
                               outOctets |-> Val(ifaceSample.outOctets),
                               timestamp |-> now])
    ELSE cache

\* the cache after the closing loop's turn for one interface
StoreInterface(cache, key, ifaceSample, now) ==
    IF ~IsNull(ifaceSample.inOctets) /\ ~IsNull(ifaceSample.outOctets)
    THEN CacheSet(cache, key, [inOctets |-> Val(ifaceSample.inOctets),
                               outOctets |-> Val(ifaceSample.outOctets),
                               timestamp |-> now])
    ELSE cache

(* pollRouter, the closing loop over router.interfaces from position index: *)
(* acc is {interfaces, cache, previous}, previous logging what each turn    *)
(* read from the cache.                                                     *)
RECURSIVE FinishInterfaces(_, _, _, _, _)
FinishInterfaces(routerId, ifaces, acc, now, index) ==
    IF index > Len(ifaces) THEN acc
    ELSE LET name == ifaces[index].name
             key == cacheKey(routerId, name)
             previous == CacheGet(acc.cache, key)
             done == FinishInterface(acc.interfaces[name], previous, now)
         IN  FinishInterfaces(routerId, ifaces,
                [interfaces |-> [acc.interfaces EXCEPT ![name] = done],
                 cache |-> StoreInterface(acc.cache, key, done, now),
                 previous |-> [acc.previous EXCEPT ![name] = previous]],
                now, index + 1)

IfaceNames(ifaces) == {ifaces[i].name : i \in 1..Len(ifaces)}
IfaceByName(ifaces, name) == ifaces[CHOOSE i \in 1..Len(ifaces) : ifaces[i].name = name]

\* Object.values(sample.interfaces).map(i => i.status)
StatusesOf(ifaces, interfaces) == [i \in 1..Len(ifaces) |-> interfaces[ifaces[i].name].status]

\* pollRouter with one request per router: a transport error fails every interface
pollRouterSharedFailureMutant(routerId, router, cache, now, responses) ==
    IF Len(router.interfaces) = 0
    THEN [sample |-> [status |-> "error", interfaces |-> <<>>,
                      error |-> "No interfaces configured"],
          cache |-> cache, previous |-> <<>>]
    ELSE LET ifaces == router.interfaces
             names == IfaceNames(ifaces)
             targets == [n \in names |-> PrepareInterface(IfaceByName(ifaces, n))]
             hasValidCounterOid == \E n \in names : targets[n].hasCounters
             prepared == [n \in names |-> targets[n].sample]
             failed == {n \in names : responses[n].err # ""}
         IN  IF ~hasValidCounterOid
             THEN [sample |-> [status |-> combineStatuses(StatusesOf(ifaces, prepared)),
                               interfaces |-> prepared, error |-> ""],
                   cache |-> cache,
                   previous |-> [n \in names |-> Null]]
             ELSE LET probed == [n \in names |->
                                   IF failed # {}
                                   THEN WithError(targets[n].sample,
                                                  responses[CHOOSE f \in failed : TRUE].err)
                                   ELSE ProbeInterface(targets[n], responses[n])]
                      fin == FinishInterfaces(routerId, ifaces,
                                [interfaces |-> probed, cache |-> cache,
                                 previous |-> [n \in names |-> Null]], now, 1)
                  IN  [sample |-> [status |-> combineStatuses(StatusesOf(ifaces, fin.interfaces)),
                                   interfaces |-> fin.interfaces, error |-> ""],
                       cache |-> fin.cache,
                       previous |-> fin.previous]

(* pollRouter(routerId, router) against the cache, with Date.now() = now and *)
(* responses[name] the response to the probe of interface name:              *)
(* {sample, cache, previous}.                                                *)
pollRouter(routerId, router, cache, now, responses) ==
    IF Len(router.interfaces) = 0
    THEN [sample |-> [status |-> "error", interfaces |-> <<>>,
                      error |-> "No interfaces configured"],
          cache |-> cache, previous |-> <<>>]
    ELSE LET ifaces == router.interfaces
             names == IfaceNames(ifaces)
             targets == [n \in names |-> PrepareInterface(IfaceByName(ifaces, n))]
             hasValidCounterOid == \E n \in names : targets[n].hasCounters
             prepared == [n \in names |-> targets[n].sample]
         IN  IF ~hasValidCounterOid
             THEN [sample |-> [status |-> combineStatuses(StatusesOf(ifaces, prepared)),
                               interfaces |-> prepared, error |-> ""],
                   cache |-> cache,
                   previous |-> [n \in names |-> Null]]
             ELSE LET probed == [n \in names |-> ProbeInterface(targets[n], responses[n])]
                      fin == FinishInterfaces(routerId, ifaces,
                                [interfaces |-> probed, cache |-> cache,
                                 previous |-> [n \in names |-> Null]], now, 1)
                  IN  [sample |-> [status |-> combineStatuses(StatusesOf(ifaces, fin.interfaces)),
                                   interfaces |-> fin.interfaces, error |-> ""],
                       cache |-> fin.cache,
                       previous |-> fin.previous]

\* pollRouter(routerId, router) rejects: a sanitizeOid call of its first loop throws
pollRouterThrows(router) ==
    \E i \in 1..Len(router.interfaces) :
        LET iface == router.interfaces[i]
        IN  \/ sanitizeOidThrows(iface.oid_in)
            \/ sanitizeOidThrows(iface.oid_out)
            \/ HasOid(iface.oid_speed) /\ sanitizeOidThrows(iface.oid_speed)

(***************************************************************************)
(* backend.ts: configuration loading.                                      *)
(***************************************************************************)
\* normaliseRouters, the body of router.interfaces.map: {poll, definition}
normaliseInterface(iface) ==
    LET trimmedSpeedOid == IF HasOid(iface.oid_speed) THEN iface.oid_speed ELSE <<>>
        speedScale == IF trimmedSpeedOid # <<>> /\ iface.oid_speed_scale > 0
                      THEN iface.oid_speed_scale ELSE 1
        hasStaticBandwidth == iface.max_bandwidth > 0
    IN  [poll |-> [name |-> iface.name,
                   oid_in |-> iface.oid_in,
                   oid_out |-> iface.oid_out,
                   max_bandwidth |-> IF hasStaticBandwidth THEN iface.max_bandwidth ELSE 0,
                   oid_speed |-> trimmedSpeedOid,
                   oid_speed_scale |-> IF trimmedSpeedOid # <<>> THEN speedScale ELSE 0],
         definition |-> [name |-> iface.name,
                         maxBandwidth |-> IF hasStaticBandwidth
                                          THEN Some(iface.max_bandwidth) ELSE Null]]

\* the conditions under which normaliseRouters and normaliseLinks throw
ConfigIsValid(raw) ==
    /\ Len(raw.routers) > 0
    /\ \A r \in 1..Len(raw.routers) :
          /\ Len(raw.routers[r].interfaces) > 0
          /\ \A i \in 1..Len(raw.routers[r].interfaces) :
                LET iface == raw.routers[r].interfaces[i]
                IN  /\ iface.name # ""
                    /\ iface.oid_in \notin {<<>>, <<"">>}
                    /\ iface.oid_out \notin {<<>>, <<"">>}
                    /\ ~sanitizeOidThrows(iface.oid_speed)
                    /\ iface.max_bandwidth > 0 \/ HasOid(iface.oid_speed)
    /\ \A l \in 1..Len(raw.links) :
          LET link == raw.links[l]
          IN  /\ \E r \in 1..Len(raw.routers) :
                    /\ raw.routers[r].id = link.from
                    /\ link.ifaceFrom \in IfaceNames(raw.routers[r].interfaces)
              /\ \E r \in 1..Len(raw.routers) :
                    /\ raw.routers[r].id = link.to
                    /\ link.ifaceTo \in IfaceNames(raw.routers[r].interfaces)

\* loadRuntimeConfig for the parsed file raw: {topology, routerPollConfig}
loadRuntimeConfig(raw) ==
    [topology |->
        [routers |-> [r \in 1..Len(raw.routers) |->
                        [id |-> raw.routers[r].id,
                         interfaces |-> [i \in 1..Len(raw.routers[r].interfaces) |->
                            normaliseInterface(raw.routers[r].interfaces[i]).definition]]],
         links |-> raw.links],
     routerPollConfig |->
        [r \in 1..Len(raw.routers) |->
            [id |-> raw.routers[r].id,
             interfaces |-> [i \in 1..Len(raw.routers[r].interfaces) |->
                normaliseInterface(raw.routers[r].interfaces[i]).poll]]]]

(***************************************************************************)
(* backend.ts: resolving one poll snapshot against the topology.           *)
(***************************************************************************)
\* the entry toRouterMetrics writes for an interface without a sample
MissingInterface(iface, message) ==
    [name |-> iface.name,
     inBps |-> Zero,
     outBps |-> Zero,
     inUtilization |-> Zero,
     outUtilization |-> Zero,
     status |-> "error",
     maxBandwidth |-> IF IsNull(iface.maxBandwidth) THEN 0 ELSE Val(iface.maxBandwidth),
     fresh |-> FALSE,
     error |-> message]

\* the entry toRouterMetrics copies from an interface sample
CopyInterface(ifaceSample) ==
    [name |-> ifaceSample.name,
     inBps |-> ifaceSample.inBps,
     outBps |-> ifaceSample.outBps,
     inUtilization |-> ifaceSample.inUtilization,
     outUtilization |-> ifaceSample.outUtilization,
     status |-> ifaceSample.status,
     maxBandwidth |-> ifaceSample.maxBandwidth,
     fresh |-> ifaceSample.fresh,
     error |-> ifaceSample.error]

\* the toRouterMetrics loop body leaving out the interfaces without sample
RouterMetricsOfOmitMutant(snapshot, router) ==
    LET names == IfaceNames(router.interfaces)
    IN  IF router.id \notin DOMAIN snapshot
        THEN [id |-> router.id,
              status |-> "error",
              error |-> "No SNMP data",
              interfaces |-> [n \in names |->
                  MissingInterface(IfaceByName(router.interfaces, n), "No SNMP data")]]
        ELSE LET sample == snapshot[router.id]
             IN  [id |-> router.id,
                  status |-> sample.status,
                  error |-> sample.error,
                  interfaces |-> [n \in names \cap DOMAIN sample.interfaces |->
                      CopyInterface(sample.interfaces[n])]]

\* toRouterMetrics, the body of the loop over topology.routers
RouterMetricsOf(snapshot, router) ==
    LET names == IfaceNames(router.interfaces)
    IN  IF router.id \notin DOMAIN snapshot
        THEN [id |-> router.id,
              status |-> "error",
              error |-> "No SNMP data",
              interfaces |-> [n \in names |->
                  MissingInterface(IfaceByName(router.interfaces, n), "No SNMP data")]]
        ELSE LET sample == snapshot[router.id]
             IN  [id |-> router.id,
                  status |-> sample.status,
                  error |-> sample.error,
                  interfaces |-> [n \in names |->
                      IF n \notin DOMAIN sample.interfaces
                      THEN MissingInterface(IfaceByName(router.interfaces, n),
                                            "Interface missing from SNMP poll")
                      ELSE CopyInterface(sample.interfaces[n])]]

RouterIds(routers) == {routers[r].id : r \in 1..Len(routers)}
RouterById(routers, id) == routers[CHOOSE r \in 1..Len(routers) : routers[r].id = id]

\* toRouterMetrics(snapshot, topology)
toRouterMetrics(snapshot, topology) ==
    [id \in RouterIds(topology.routers) |->
        RouterMetricsOf(snapshot, RouterById(topology.routers, id))]

\* utilisationForInterface reading the in direction only
utilisationForInterfaceInOnlyMutant(iface) ==
    IF IsNull(iface) THEN Null ELSE Some(Val(iface).inUtilization)

\* utilisationForInterface(iface)
utilisationForInterface(iface) ==
    IF IsNull(iface) THEN Null
    ELSE Some(RatMax(Val(iface).inUtilization, Val(iface).outUtilization))

\* routers[id]?.interfaces[name] ?? null
LookupInterface(routers, id, name) ==
    IF id \in DOMAIN routers /\ name \in DOMAIN routers[id].interfaces
    THEN Some(routers[id].interfaces[name]) ELSE Null

\* toLinkMetrics, the body of links.map
LinkMetricsOf(routers, link) ==
    LET forward == LookupInterface(routers, link.from, link.ifaceFrom)
        reverse == LookupInterface(routers, link.to, link.ifaceTo)
        forwardUtil == utilisationForInterface(forward)
        reverseUtil == utilisationForInterface(reverse)
    IN  [id |-> link.id,
         from |-> link.from,
         to |-> link.to,
         forward |-> forward,
         reverse |-> reverse,
         aggregateUtilization |->
            IF ~IsNull(forwardUtil) \/ ~IsNull(reverseUtil)
            THEN Some(RatMax(IF IsNull(forwardUtil) THEN Zero ELSE Val(forwardUtil),
                             IF IsNull(reverseUtil) THEN Zero ELSE Val(reverseUtil)))
            ELSE Null]

\* toLinkMetrics(routers, links)
toLinkMetrics(routers, links) == [l \in 1..Len(links) |-> LinkMetricsOf(routers, links[l])]


(***************************************************************************)
(* The configuration files of the model (config.yaml after yaml.load).     *)
(***************************************************************************)
GoodOid == <<"", "1", "3", "6", "1">>
FlakyOid == <<"1", "3", "6", "2">>
FlakyOid2 == <<"1", "3", "6", "3">>
BadOid == <<"1", "3", "x">>

RawIface(name, oidIn, oidOut, bandwidth, oidSpeed, scale) ==
    [name |-> name, oid_in |-> oidIn, oid_out |-> oidOut, max_bandwidth |-> bandwidth,
     oid_speed |-> oidSpeed, oid_speed_scale |-> scale]

RawLink(id, from, ifaceFrom, to, ifaceTo) ==
    [id |-> id, from |-> from, to |-> to, ifaceFrom |-> ifaceFrom, ifaceTo |-> ifaceTo]

OneInterface(iface) ==
    [routers |-> <<[id |-> "r", interfaces |-> <<iface>>]>>, links |-> <<>>]

(* 1, 2: a topology of two routers and its replacement; 3: a file the       *)
(* loader rejects; 4..8: one router with one interface, one file for each   *)
(* way an interface can be configured; 9, 10: two routers that both wait    *)
(* for their devices, and the same file with a numeric scalar as an OID;    *)
(* 11, 12: one router, and the file with such a second router added; 13:    *)
(* two routers whose ids and interface names contain ':'.                   *)
ConfigFiles ==
    << [routers |->
          << [id |-> "a", interfaces |->
                << RawIface("x", GoodOid, GoodOid, 96, <<>>, 0),
                   RawIface("y", FlakyOid, GoodOid, 80, <<>>, 0) >>],
             [id |-> "b", interfaces |->
                << RawIface("m", BadOid, <<"", "">>, 80, <<>>, 0) >>] >>,
        links |-> << RawLink("l1", "a", "x", "b", "m"),
                     RawLink("l2", "b", "m", "a", "y"),
                     RawLink("l3", "a", "x", "a", "y") >>],
       [routers |->
          << [id |-> "a", interfaces |->
                << RawIface("x", GoodOid, GoodOid, 48, <<>>, 0),
                   RawIface("z", BadOid, BadOid, 0, GoodOid, 40) >>],
             [id |-> "c", interfaces |->
                << RawIface("w", BadOid, BadOid, 80, <<>>, 0) >>] >>,
        links |-> << RawLink("l1", "a", "x", "c", "w"),
                     RawLink("l4", "c", "w", "a", "z") >>],
       [routers |->
          << [id |-> "a", interfaces |->
                << RawIface("x", GoodOid, GoodOid, 0, <<>>, 0) >>] >>,
        links |-> <<>>],
       OneInterface(RawIface("i", FlakyOid, FlakyOid2, 96, <<>>, 0)),
       OneInterface(RawIface("i", GoodOid, <<"1", "3", "6", "6">>, 0, FlakyOid, 40)),
       OneInterface(RawIface("i", GoodOid, GoodOid, 80, FlakyOid, 0)),
       OneInterface(RawIface("i", GoodOid, GoodOid, 80, BadOid, 40)),
       OneInterface(RawIface("i", BadOid, FlakyOid, 96, <<>>, 0)),
       [routers |->
          << [id |-> "p", interfaces |->
                << RawIface("i", GoodOid, GoodOid, 96, <<>>, 0) >>],
             [id |-> "q", interfaces |->
                << RawIface("j", GoodOid, GoodOid, 80, <<>>, 0) >>] >>,
        links |-> << RawLink("l5", "p", "i", "q", "j") >>],
       [routers |->
          << [id |-> "p", interfaces |->
                << RawIface("i", GoodOid, GoodOid, 96, <<>>, 0) >>],
             [id |-> "q", interfaces |->
                << RawIface("j", NumberOid, GoodOid, 80, <<>>, 0) >>] >>,
        links |-> << RawLink("l5", "p", "i", "q", "j") >>],
       [routers |->
          << [id |-> "p", interfaces |->
                << RawIface("i", GoodOid, GoodOid, 96, <<>>, 0) >>] >>,
        links |-> <<>>],
       [routers |->
          << [id |-> "p", interfaces |->
                << RawIface("i", GoodOid, GoodOid, 96, <<>>, 0) >>],
             [id |-> "q", interfaces |->
                << RawIface("j", NumberOid, GoodOid, 80, <<>>, 0) >>] >>,
        links |-> << RawLink("l5", "p", "i", "q", "j") >>],
       [routers |->
          << [id |-> "a", interfaces |->
                << RawIface("b:c", GoodOid, GoodOid, 96, <<>>, 0) >>],
             [id |-> "a:b", interfaces |->
                << RawIface("c", FlakyOid, FlakyOid2, 80, <<>>, 0) >>] >>,
        links |-> << RawLink("l6", "a", "b:c", "a:b", "c") >>] >>

\* the files the reload handler can find in place of the one the running config came from
ReloadsTo(file) ==
    IF file = 1 THEN {2, 3} ELSE IF file = 4 THEN {5}
    ELSE IF file = 9 THEN {10} ELSE IF file = 10 THEN {9}
    ELSE IF file = 11 THEN {12} ELSE IF file = 12 THEN {11} ELSE {}

Config(file) == loadRuntimeConfig(ConfigFiles[file])

(***************************************************************************)
(* The devices: what a probe can answer.                                   *)
(***************************************************************************)
Counters == {9 * k : k \in 0..MaxCount}
Speeds == {0, 2}
Times == {1000 * k : k \in 0..MaxTick}

(* The varbinds a device can answer for an OID read as `kind`. The OIDs      *)
(* 1.3.6.2 and 1.3.6.3 answer an error varbind, a value of another type or  *)
(* a number of the whole range; every other OID answers a number, a counter *)
(* being 0 or 9.                                                            *)
VarbindsFor(oid, kind) ==
    IF oid \in {FlakyOid, FlakyOid2}
    THEN {[kind |-> "error", value |-> 0], [kind |-> "other", value |-> 0]}
            \cup {[kind |-> "num", value |-> v] :
                    v \in IF kind = "speed" THEN Speeds ELSE Counters}
    ELSE {[kind |-> "num", value |-> v] : v \in IF kind = "speed" THEN Speeds ELSE {0, 9}}

(* The varbind lists a device can answer to a request for entries[index..]:  *)
(* one varbind per requested OID, in request order; an OID requested twice   *)
(* in one request (`seen` holds the OIDs answered so far) is answered twice  *)
(* with the same varbind.                                                    *)
RECURSIVE VarbindLists(_, _, _)
VarbindLists(entries, index, seen) ==
    IF index > Len(entries) THEN {<<>>}
    ELSE LET oid == entries[index].oid
         IN  IF oid \in DOMAIN seen
             THEN {<<seen[oid]>> \o rest : rest \in VarbindLists(entries, index + 1, seen)}
             ELSE UNION {{<<v>> \o rest :
                            rest \in VarbindLists(entries, index + 1, (oid :> v) @@ seen)} :
                         v \in VarbindsFor(oid, entries[index].kind)}

NoResponse == [err |-> "", varbinds |-> <<>>]

(* The answers to session.get(oidList): a transport error, or one varbind   *)
(* per requested OID, in request order (net-snmp answers a response of      *)
(* another length with an error).                                           *)
ResponsesFor(target) ==
    IF ~target.hasCounters THEN {NoResponse}
    ELSE {[err |-> "Request timed out", varbinds |-> <<>>]}
         \cup {[err |-> "", varbinds |-> vs] : vs \in VarbindLists(target.entries, 1, <<>>)}

RECURSIVE ResponseMaps(_, _)
ResponseMaps(ifaces, index) ==
    IF index > Len(ifaces) THEN {<<>>}
    ELSE {(ifaces[index].name :> r) @@ rest :
            r \in ResponsesFor(PrepareInterface(ifaces[index])),
            rest \in ResponseMaps(ifaces, index + 1)}

\* the answers to the probes of one pollRouter call, by interface name
RouterResponses(router) == ResponseMaps(router.interfaces, 1)

(***************************************************************************)
(* Arithmetic of the renderers: coordinates and lengths are exact          *)
(* rationals. Math.hypot and Math.log are taken on the inputs of the model *)
(* only, where their results are rational.                                 *)
(***************************************************************************)
Num(n) == Rat(n, 1)
RatAdd(p, q) == Rat(p.n * q.d + q.n * p.d, p.d * q.d)
RatSub(p, q) == Rat(p.n * q.d - q.n * p.d, p.d * q.d)
RatMul(p, q) == Rat(p.n * q.n, p.d * q.d)
RatLt(p, q) == p.n * q.d < q.n * p.d
RatAbs(p) == Rat(Abs(p.n), p.d)
\* Math.min(p, q)
RatMin(p, q) == IF RatLt(q, p) THEN q ELSE p

\* the largest r in lo..hi with r * r <= n
RECURSIVE SqrtBetween(_, _, _)
SqrtBetween(n, lo, hi) ==
    IF lo >= hi THEN lo
    ELSE LET mid == (lo + hi + 1) \div 2
         IN  IF mid * mid <= n THEN SqrtBetween(n, mid, hi) ELSE SqrtBetween(n, lo, mid - 1)

\* the square root of a perfect square below 40000 * 40000
ExactSqrt(n) == CHOOSE r \in {SqrtBetween(n, 0, IF n > 40000 THEN 40000 ELSE n)} : r * r = n

\* Math.hypot(dx, dy), for dx * dx + dy * dy the square of a rational
Hypot(dx, dy) ==
    LET square == RatAdd(RatMul(dx, dx), RatMul(dy, dy))
    IN  Rat(ExactSqrt(square.n), ExactSqrt(square.d))

\* the k with 2^k = n, for n a power of two
RECURSIVE HalvingsOf(_)
HalvingsOf(n) == IF n <= 1 THEN 0 ELSE 1 + HalvingsOf(n \div 2)

LogTwo(n) == CHOOSE k \in {HalvingsOf(n)} : 2^k = n

(* (Math.log(value) - Math.log(min)) / (Math.log(max) - Math.log(min)) for  *)
(* 0 < min < value < max, where value / min and max / min are powers of two *)
LogRatio(value, min, max) == Rat(LogTwo(value \div min), LogTwo(max \div min))

\* Math.min(...values) and Math.max(...values) of a non-empty list of numbers
RECURSIVE MinOf(_)
MinOf(values) ==
    IF Len(values) = 1 THEN values[1]
    ELSE LET rest == MinOf(Tail(values))
         IN  IF rest < values[1] THEN rest ELSE values[1]

RECURSIVE MaxOf(_)
MaxOf(values) ==
    IF Len(values) = 1 THEN values[1]
    ELSE LET rest == MaxOf(Tail(values))
         IN  IF rest > values[1] THEN rest ELSE values[1]

(***************************************************************************)
(* shared/path-utils.ts: splitting a polyline at half its length.          *)
(***************************************************************************)
Point(x, y) == [x |-> Num(x), y |-> Num(y)]

\* the lengths of the segments of path
segmentLengths(path) ==
    [i \in 1..(Len(path) - 1) |->
        Hypot(RatSub(path[i + 1].x, path[i].x), RatSub(path[i + 1].y, path[i].y))]

RECURSIVE SumOf(_)
SumOf(lengths) == IF Len(lengths) = 0 THEN Zero ELSE RatAdd(lengths[1], SumOf(Tail(lengths)))

(* the loop taking `remaining` as halfway, without the length of the         *)
(* segments already walked                                                   *)
RECURSIVE SplitFromNotAccumulatedMutant(_, _, _, _, _)
SplitFromNotAccumulatedMutant(path, lengths, halfway, i, accumulated) ==
    IF i > Len(lengths)
    THEN [midpoint |-> path[Len(path)], firstHalf |-> path, secondHalf |-> <<path[Len(path)]>>]
    ELSE LET length == lengths[i]
             start == path[i]
             end == path[i + 1]
         IN  IF RatGeq(RatAdd(accumulated, length), halfway)
             THEN LET remaining == halfway
                      ratio == IF length = Zero THEN Zero ELSE RatDiv(remaining, length)
                      midpoint == [x |-> RatAdd(start.x, RatMul(RatSub(end.x, start.x), ratio)),
                                   y |-> RatAdd(start.y, RatMul(RatSub(end.y, start.y), ratio))]
                  IN  [midpoint |-> midpoint,
                       firstHalf |-> Append(SubSeq(path, 1, i), midpoint),
                       secondHalf |-> <<midpoint>> \o SubSeq(path, i + 1, Len(path))]
             ELSE SplitFromNotAccumulatedMutant(path, lengths, halfway, i + 1,
                                                RatAdd(accumulated, length))

(* the second loop of splitPathAtHalf from segment i on (i counts from 1),  *)
(* with `accumulated` the length of the segments before it                  *)
RECURSIVE SplitFrom(_, _, _, _, _)
SplitFrom(path, lengths, halfway, i, accumulated) ==
    IF i > Len(lengths)
    THEN [midpoint |-> path[Len(path)], firstHalf |-> path, secondHalf |-> <<path[Len(path)]>>]
    ELSE LET length == lengths[i]
             start == path[i]
             end == path[i + 1]
         IN  IF RatGeq(RatAdd(accumulated, length), halfway)
             THEN LET remaining == RatSub(halfway, accumulated)
                      ratio == IF length = Zero THEN Zero ELSE RatDiv(remaining, length)
                      midpoint == [x |-> RatAdd(start.x, RatMul(RatSub(end.x, start.x), ratio)),
                                   y |-> RatAdd(start.y, RatMul(RatSub(end.y, start.y), ratio))]
                  IN  [midpoint |-> midpoint,
                       firstHalf |-> Append(SubSeq(path, 1, i), midpoint),
                       secondHalf |-> <<midpoint>> \o SubSeq(path, i + 1, Len(path))]
             ELSE SplitFrom(path, lengths, halfway, i + 1, RatAdd(accumulated, length))

\* splitPathAtHalf without the branch for totalLength === 0
splitPathAtHalfNoZeroLengthMutant(path) ==
    IF Len(path) = 0
    THEN [midpoint |-> Point(0, 0), firstHalf |-> <<Point(0, 0)>>,
          secondHalf |-> <<Point(0, 0)>>]
    ELSE IF Len(path) = 1
    THEN [midpoint |-> path[1], firstHalf |-> <<path[1]>>, secondHalf |-> <<path[1]>>]
    ELSE LET lengths == segmentLengths(path)
             totalLength == SumOf(lengths)
         IN  SplitFrom(path, lengths, RatDiv(totalLength, Num(2)), 1, Zero)

\* splitPathAtHalf(path): {midpoint, firstHalf, secondHalf}
splitPathAtHalf(path) ==
    IF Len(path) = 0
    THEN [midpoint |-> Point(0, 0), firstHalf |-> <<Point(0, 0)>>,
          secondHalf |-> <<Point(0, 0)>>]
    ELSE IF Len(path) = 1
    THEN [midpoint |-> path[1], firstHalf |-> <<path[1]>>, secondHalf |-> <<path[1]>>]
    ELSE LET lengths == segmentLengths(path)
             totalLength == SumOf(lengths)
         IN  IF totalLength = Zero
             THEN LET midpoint == path[(Len(path) \div 2) + 1]
                  IN  [midpoint |-> midpoint,
                       firstHalf |-> <<path[1], midpoint>>,
                       secondHalf |-> <<midpoint, path[Len(path)]>>]
             ELSE SplitFrom(path, lengths, RatDiv(totalLength, Num(2)), 1, Zero)

(***************************************************************************)
(* map-renderer.ts and frontend/main.ts: what the two renderers decide.    *)
(* A topology is {routers, links}: a router is {id, position, interfaces}  *)
(* with interfaces {name, maxBandwidth} (maxBandwidth absent or a number), *)
(* a link is {id, from, to, ifaceFrom, ifaceTo, path} with path the manual *)
(* waypoints (empty when absent). A metrics payload is {type, routers,     *)
(* links}: routers[id] is {status, interfaces}, links[i] is {id, forward,  *)
(* reverse}.                                                               *)
(***************************************************************************)
MIN_LINK_WIDTH == 2
MAX_LINK_WIDTH == 14

UTILIZATION_BUCKETS ==
    << [min |-> Rat(0, 1), max |-> Rat(1, 100), color |-> "#0ea5e9"],
       [min |-> Rat(1, 100), max |-> Rat(2, 10), color |-> "#22c55e"],
       [min |-> Rat(2, 10), max |-> Rat(4, 10), color |-> "#84cc16"],
       [min |-> Rat(4, 10), max |-> Rat(6, 10), color |-> "#facc15"],
       [min |-> Rat(6, 10), max |-> Rat(8, 10), color |-> "#f97316"],
       [min |-> Rat(8, 10), max |-> Rat(9, 10), color |-> "#ea580c"],
       [min |-> Rat(9, 10), max |-> Rat(99, 100), color |-> "#ef4444"],
       [min |-> Rat(99, 100), max |-> Rat(101, 100), color |-> "#991b1b"] >>

\* the order of sort() and of localeCompare on the identifiers of the model
StringOrder == <<"A", "B", "C", "a1", "b2", "c3">>
RankOf(s) == CHOOSE i \in 1..Len(StringOrder) : StringOrder[i] = s
Before(s, t) == RankOf(s) < RankOf(t)

\* buildRouterMap(routers): a later router replaces an earlier one of the same id
buildRouterMap(routers) ==
    [id \in {routers[i].id : i \in 1..Len(routers)} |->
        routers[CHOOSE i \in 1..Len(routers) :
                   /\ routers[i].id = id
                   /\ \A j \in 1..Len(routers) : routers[j].id = id => j <= i]]

\* map.get(key) ?? null, with the value or null held as an optional
MapGet(map, key) == IF key \in DOMAIN map THEN Some(map[key]) ELSE Null

\* array.find(candidate => candidate.name === name)
FindByName(items, name) ==
    LET found == {i \in 1..Len(items) : items[i].name = name}
    IN  IF found = {} THEN Null
        ELSE Some(items[CHOOSE i \in found : \A j \in found : i <= j])

\* array.find(candidate => candidate.id === id)
FindById(items, id) ==
    LET found == {i \in 1..Len(items) : items[i].id = id}
    IN  IF found = {} THEN Null
        ELSE Some(items[CHOOSE i \in found : \A j \in found : i <= j])

\* [forward, reverse].filter(value => typeof value === "number" && value > 0)
PositiveCandidates(values) == SelectSeq(values, LAMBDA v : ~IsNull(v) /\ Val(v) > 0)

\* candidates[0] in place of Math.min(...candidates)
MinCandidateFirstMutant(candidates) ==
    IF Len(candidates) = 0 THEN Null ELSE Some(Val(candidates[1]))

\* candidates.length ? Math.min(...candidates) : null
MinCandidate(candidates) ==
    IF Len(candidates) = 0 THEN Null
    ELSE Some(MinOf([i \in 1..Len(candidates) |-> Val(candidates[i])]))

\* capacities.length ? {min, max} : null
RangeOf(capacities) ==
    IF Len(capacities) = 0 THEN Null
    ELSE Some([min |-> MinOf(capacities), max |-> MaxOf(capacities)])

\* map-renderer.ts getInterfaceCapacity(router, ifaceName), router absent as Null
getInterfaceCapacity(router, ifaceName) ==
    IF IsNull(router) THEN Null
    ELSE LET iface == FindByName(Val(router).interfaces, ifaceName)
         IN  IF IsNull(iface) THEN Null ELSE Val(iface).maxBandwidth

\* the capacity computeLinkCapacities gives one link
OfflineLinkCapacity(routerMap, link) ==
    MinCandidate(PositiveCandidates(
        << getInterfaceCapacity(MapGet(routerMap, link.from), link.ifaceFrom),
           getInterfaceCapacity(MapGet(routerMap, link.to), link.ifaceTo) >>))

\* the non-null capacities of links[index..], in order
RECURSIVE CapacitiesFrom(_, _, _)
CapacitiesFrom(map, links, index) ==
    IF index > Len(links) THEN <<>>
    ELSE LET capacity == map[links[index].id]
             rest == CapacitiesFrom(map, links, index + 1)
         IN  IF IsNull(capacity) \/ Val(capacity) = 0 THEN rest ELSE <<Val(capacity)>> \o rest

\* map-renderer.ts computeLinkCapacities(routers, links): {capacities, map}
computeLinkCapacities(routers, links) ==
    LET routerMap == buildRouterMap(routers)
        map == [id \in {links[l].id : l \in 1..Len(links)} |->
                  OfflineLinkCapacity(routerMap,
                      links[CHOOSE l \in 1..Len(links) :
                               /\ links[l].id = id
                               /\ \A k \in 1..Len(links) : links[k].id = id => k <= l])]
    IN  [capacities |-> CapacitiesFrom(map, links, 1), map |-> map]

\* computeAutoPath with offset = index * spacing: the group is not centred on the line
computeAutoPathNotCentredMutant(from, to, groupSize, index) ==
    LET dx == RatSub(to.x, from.x)
        dy == RatSub(to.y, from.y)
        hypot == Hypot(dx, dy)
        length == IF hypot = Zero THEN Num(1) ELSE hypot
        midpoint == [x |-> RatAdd(from.x, RatDiv(dx, Num(2))),
                     y |-> RatAdd(from.y, RatDiv(dy, Num(2)))]
        normalizedPerp == [x |-> RatDiv(RatSub(Zero, dy), length), y |-> RatDiv(dx, length)]
        spacing == RatMin(Num(160), RatMax(Num(40), RatDiv(length, Num(3))))
        offset == RatMul(Num(index), spacing)
        control == [x |-> RatAdd(midpoint.x, RatMul(normalizedPerp.x, offset)),
                    y |-> RatAdd(midpoint.y, RatMul(normalizedPerp.y, offset))]
    IN  IF groupSize = 1 \/ RatLt(RatAbs(offset), Num(1))
        THEN <<from, to>>
        ELSE <<from, control, to>>

\* computeAutoPath(from, to, groupSize, index), index counting from 0
computeAutoPath(from, to, groupSize, index) ==
    LET dx == RatSub(to.x, from.x)
        dy == RatSub(to.y, from.y)
        hypot == Hypot(dx, dy)
        length == IF hypot = Zero THEN Num(1) ELSE hypot
        midpoint == [x |-> RatAdd(from.x, RatDiv(dx, Num(2))),
                     y |-> RatAdd(from.y, RatDiv(dy, Num(2)))]
        normalizedPerp == [x |-> RatDiv(RatSub(Zero, dy), length), y |-> RatDiv(dx, length)]
        spacing == RatMin(Num(160), RatMax(Num(40), RatDiv(length, Num(3))))
        offset == RatMul(RatSub(Num(index), Rat(groupSize - 1, 2)), spacing)
        control == [x |-> RatAdd(midpoint.x, RatMul(normalizedPerp.x, offset)),
                    y |-> RatAdd(midpoint.y, RatMul(normalizedPerp.y, offset))]
    IN  IF groupSize = 1 \/ RatLt(RatAbs(offset), Num(1))
        THEN <<from, to>>
        ELSE <<from, control, to>>

\* [link.from, link.to].sort().join("::")
GroupKey(link) ==
    IF Before(link.to, link.from) THEN link.to \o "::" \o link.from
    ELSE link.from \o "::" \o link.to

\* the links of the group of key `key`, by index in topology.links
GroupOf(links, key) == {l \in 1..Len(links) : GroupKey(links[l]) = key}

(* the index (from 0) of link l in its group after                          *)
(* group.sort((a, b) => a.id.localeCompare(b.id)): the sort is stable        *)
IndexInGroup(links, l) ==
    Cardinality({k \in GroupOf(links, GroupKey(links[l])) :
                    \/ Before(links[k].id, links[l].id)
                    \/ links[k].id = links[l].id /\ k < l})

\* the manual path without the positions of the two routers
ManualPathWaypointsOnlyMutant(routerMap, link) ==
    IF Len(link.path) = 0 \/ link.from \notin DOMAIN routerMap \/ link.to \notin DOMAIN routerMap
    THEN Null
    ELSE Some(link.path)

\* the manual path of a link, when it has waypoints and both its routers exist
ManualPath(routerMap, link) ==
    IF Len(link.path) = 0 \/ link.from \notin DOMAIN routerMap \/ link.to \notin DOMAIN routerMap
    THEN Null
    ELSE Some(<<routerMap[link.from].position>> \o link.path \o <<routerMap[link.to].position>>)

(* computeLinkPaths(topology): the map from link id to path. Link ids are   *)
(* distinct, as normaliseLinks leaves them.                                  *)
computeLinkPaths(topology) ==
    LET routerMap == buildRouterMap(topology.routers)
        links == topology.links
        drawn == {l \in 1..Len(links) :
                    \/ ~IsNull(ManualPath(routerMap, links[l]))
                    \/ links[l].from \in DOMAIN routerMap /\ links[l].to \in DOMAIN routerMap}
    IN  [id \in {links[l].id : l \in drawn} |->
            LET l == CHOOSE k \in drawn : links[k].id = id
                link == links[l]
                manual == ManualPath(routerMap, link)
            IN  IF ~IsNull(manual) THEN Val(manual)
                ELSE computeAutoPath(routerMap[link.from].position,
                                     routerMap[link.to].position,
                                     Cardinality(GroupOf(links, GroupKey(link))),
                                     IndexInGroup(links, l))]

\* interfaceUtilization(iface), iface absent as Null
interfaceUtilization(iface) ==
    IF IsNull(iface) THEN Null
    ELSE Some(RatMax(Val(iface).inUtilization, Val(iface).outUtilization))

\* the number NaN, which no rational equals
NaN == [n |-> 0, d |-> 0]

\* utilToColor(utilization)
utilToColor(utilization) ==
    IF IsNull(utilization) \/ Val(utilization) = NaN THEN "#5a646d"
    ELSE LET found == {i \in 1..Len(UTILIZATION_BUCKETS) :
                          /\ RatGeq(Val(utilization), UTILIZATION_BUCKETS[i].min)
                          /\ RatLt(Val(utilization), UTILIZATION_BUCKETS[i].max)}
         IN  IF found = {} THEN UTILIZATION_BUCKETS[Len(UTILIZATION_BUCKETS)].color
             ELSE UTILIZATION_BUCKETS[CHOOSE i \in found : \A j \in found : i <= j].color

\* capacityToWidth with the interpolation inverted: 1 - t for t
capacityToWidthInvertedMutant(capacity, range) ==
    IF IsNull(capacity) \/ Val(capacity) = 0 \/ IsNull(range)
    THEN Num(MIN_LINK_WIDTH)
    ELSE LET min == Val(range).min
             max == Val(range).max
             value == Val(capacity)
         IN  IF value <= 0 \/ min <= 0 THEN Num(MIN_LINK_WIDTH)
             ELSE IF max = min THEN Rat(MIN_LINK_WIDTH + MAX_LINK_WIDTH, 2)
             ELSE LET t == IF value <= min THEN Zero
                           ELSE IF value >= max THEN Num(1)
                           ELSE LogRatio(value, min, max)
                  IN  RatAdd(Num(MIN_LINK_WIDTH),
                             RatMul(Num(MAX_LINK_WIDTH - MIN_LINK_WIDTH), RatSub(Num(1), t)))

\* capacityToWidth(capacity, range)
capacityToWidth(capacity, range) ==
    IF IsNull(capacity) \/ Val(capacity) = 0 \/ IsNull(range)
    THEN Num(MIN_LINK_WIDTH)
    ELSE LET min == Val(range).min
             max == Val(range).max
             value == Val(capacity)
         IN  IF value <= 0 \/ min <= 0 THEN Num(MIN_LINK_WIDTH)
             ELSE IF max = min THEN Rat(MIN_LINK_WIDTH + MAX_LINK_WIDTH, 2)
             ELSE LET t == IF value <= min THEN Zero
                           ELSE IF value >= max THEN Num(1)
                           ELSE LogRatio(value, min, max)
                  IN  RatAdd(Num(MIN_LINK_WIDTH),
                             RatMul(Num(MAX_LINK_WIDTH - MIN_LINK_WIDTH), t))

\* drawHalfStroke(pathPoints, color, width) as drawLink calls it: the stroke or nothing
HalfStroke(pathPoints, color, width) ==
    IF Len(pathPoints) >= 2
    THEN Some([path |-> pathPoints, color |-> color, width |-> width])
    ELSE Null

\* drawLink without the label: the two strokes, or nothing for a path of one point
drawLink(pathPoints, forwardUtilization, reverseUtilization, capacity, capacityRange) ==
    IF Len(pathPoints) < 2 THEN Null
    ELSE LET width == capacityToWidth(capacity, capacityRange)
             split == splitPathAtHalf(pathPoints)
         IN  Some([forward |-> HalfStroke(split.firstHalf, utilToColor(forwardUtilization), width),
                   reverse |-> HalfStroke(split.secondHalf, utilToColor(reverseUtilization),
                                          width)])

\* drawRouter: colorMap[status] ?? "#f87171"
drawRouter(status) ==
    IF status = "ok" THEN "#22c55e"
    ELSE IF status = "warning" THEN "#f97316"
    ELSE IF status = "critical" THEN "#ef4444"
    ELSE "#f87171"

\* linkMetricsMap.get(link.id), metrics absent as Null: the last entry of that id
LinkMetricsGet(metrics, id) ==
    IF IsNull(metrics) THEN Null
    ELSE LET links == Val(metrics).links
             found == {i \in 1..Len(links) : links[i].id = id}
         IN  IF found = {} THEN Null
             ELSE Some(links[CHOOSE i \in found : \A j \in found : j <= i])

\* metrics?.routers[id]?.status ?? "error"
RouterStatusOf(metrics, id) ==
    IF IsNull(metrics) \/ id \notin DOMAIN Val(metrics).routers THEN "error"
    ELSE Val(metrics).routers[id].status

(* The loops of renderMapSnapshot and of draw over topology.links and        *)
(* topology.routers: per link what drawLink does (nothing when a router of   *)
(* the link is missing), per router its colour.                              *)
DrawAll(topology, metrics, capacityMap, capacityRange, linkPaths) ==
    LET routerMap == buildRouterMap(topology.routers)
    IN  [links |->
           [l \in 1..Len(topology.links) |->
              LET link == topology.links[l]
                  linkMetrics == LinkMetricsGet(metrics, link.id)
                  forward == IF IsNull(linkMetrics) THEN Null ELSE Val(linkMetrics).forward
                  reverse == IF IsNull(linkMetrics) THEN Null ELSE Val(linkMetrics).reverse
                  capacity == IF link.id \in DOMAIN capacityMap THEN capacityMap[link.id]
                              ELSE Null
              IN  IF link.from \notin DOMAIN routerMap \/ link.to \notin DOMAIN routerMap
                  THEN Null
                  ELSE drawLink(IF link.id \in DOMAIN linkPaths THEN linkPaths[link.id]
                                ELSE <<routerMap[link.from].position,
                                       routerMap[link.to].position>>,
                                interfaceUtilization(forward),
                                interfaceUtilization(reverse),
                                capacity, capacityRange)],
         routers |->
           [r \in 1..Len(topology.routers) |->
              drawRouter(RouterStatusOf(metrics, topology.routers[r].id))]]

\* map-renderer.ts renderMapSnapshot({topology, metrics}): what it draws
renderMapSnapshot(topology, metrics) ==
    LET computed == computeLinkCapacities(topology.routers, topology.links)
    IN  DrawAll(topology, Some(metrics), computed.map, RangeOf(computed.capacities),
                computeLinkPaths(topology))

(***************************************************************************)
(* frontend/main.ts: the state of the page is {topology, metrics,          *)
(* linkCapacityMap, capacityRange, linkPathMap, layoutMode, pointerState,  *)
(* renderState}, the window, the size of the canvas and `canvas`, what the *)
(* last draw() drew.                                                       *)
(***************************************************************************)
\* interfaceDefinitionCapacity(routerId, ifaceName)
interfaceDefinitionCapacity(page, routerId, ifaceName) ==
    IF IsNull(page.topology) THEN Null
    ELSE LET router == FindById(Val(page.topology).routers, routerId)
             iface == IF IsNull(router) THEN Null
                      ELSE FindByName(Val(router).interfaces, ifaceName)
         IN  IF IsNull(iface) THEN Null ELSE Val(iface).maxBandwidth

\* interfaceMetricCapacity(routerId, ifaceName)
interfaceMetricCapacity(page, routerId, ifaceName) ==
    IF IsNull(page.metrics) \/ routerId \notin DOMAIN Val(page.metrics).routers THEN Null
    ELSE LET interfaces == Val(page.metrics).routers[routerId].interfaces
         IN  IF ifaceName \notin DOMAIN interfaces THEN Null
             ELSE Some(interfaces[ifaceName].maxBandwidth)

\* the capacity rebuildLinkCapacities gives one link
PageLinkCapacity(page, link) ==
    LET metricCandidates ==
            PositiveCandidates(<< interfaceMetricCapacity(page, link.from, link.ifaceFrom),
                                  interfaceMetricCapacity(page, link.to, link.ifaceTo) >>)
        candidates ==
            IF Len(metricCandidates) = 0
            THEN PositiveCandidates(
                    << interfaceDefinitionCapacity(page, link.from, link.ifaceFrom),
                       interfaceDefinitionCapacity(page, link.to, link.ifaceTo) >>)
            ELSE metricCandidates
    IN  MinCandidate(candidates)

\* rebuildLinkCapacities()
rebuildLinkCapacities(page) ==
    IF IsNull(page.topology) THEN page
    ELSE LET links == Val(page.topology).links
             map == [id \in {links[l].id : l \in 1..Len(links)} |->
                       PageLinkCapacity(page,
                           links[CHOOSE l \in 1..Len(links) :
                                    /\ links[l].id = id
                                    /\ \A k \in 1..Len(links) : links[k].id = id => k <= l])]
         IN  [page EXCEPT !.linkCapacityMap = map,
                          !.capacityRange = RangeOf(CapacitiesFrom(map, links, 1))]

\* rebuildLinkPaths(): the statements of computeLinkPaths, on the page's topology
rebuildLinkPaths(page) ==
    IF IsNull(page.topology) THEN page
    ELSE [page EXCEPT !.linkPathMap = computeLinkPaths(Val(page.topology))]

\* draw()
draw(page) ==
    IF IsNull(page.topology) THEN page
    ELSE [page EXCEPT !.canvas = Some(DrawAll(Val(page.topology), page.metrics,
                                              page.linkCapacityMap, page.capacityRange,
                                              page.linkPathMap))]

\* topology.mapSize, an optional property
MapSizeOf(topology) ==
    IF "mapSize" \in DOMAIN topology THEN Some(topology.mapSize) ELSE Null

\* Math.floor and Math.round of a rational
RatFloor(p) == p.n \div p.d
RatRound(p) == (2 * p.n + p.d) \div (2 * p.d)

(* resizeCanvas(): the canvas takes the size of the map scaled into the      *)
(* window, the size of the window when the topology has no mapSize           *)
resizeCanvas(page) ==
    IF IsNull(page.topology) THEN page
    ELSE LET mapSize == MapSizeOf(Val(page.topology))
             baseWidth == IF IsNull(mapSize) THEN page.window.innerWidth
                          ELSE Val(mapSize).width
             baseHeight == IF IsNull(mapSize) THEN page.window.innerHeight
                           ELSE Val(mapSize).height
             scale == IF IsNull(mapSize) THEN Num(1)
                      ELSE RatMin(Rat(page.window.innerWidth, baseWidth),
                                  Rat(page.window.innerHeight, baseHeight))
             width == RatMul(Num(baseWidth), scale)
             height == RatMul(Num(baseHeight), scale)
             dpr == page.window.devicePixelRatio
         IN  [page EXCEPT
                !.canvasSize = [width |-> MaxOf(<<1, RatFloor(RatMul(width, Num(dpr)))>>),
                                height |-> MaxOf(<<1, RatFloor(RatMul(height, Num(dpr)))>>),
                                styleWidth |-> width,
                                styleHeight |-> height],
                !.renderState = [baseWidth |-> baseWidth, baseHeight |-> baseHeight,
                                 scale |-> scale, dpr |-> dpr]]

(* screenToMap(clientX, clientY): the bounding rectangle of the canvas is    *)
(* its style size at the origin of the viewport                              *)
screenToMap(page, clientX, clientY) ==
    LET scaleX == RatDiv(Num(page.canvasSize.width), page.canvasSize.styleWidth)
        scaleY == RatDiv(Num(page.canvasSize.height), page.canvasSize.styleHeight)
        xPx == RatMul(Num(clientX), scaleX)
        yPx == RatMul(Num(clientY), scaleY)
        transform == RatMul(Num(page.renderState.dpr), page.renderState.scale)
    IN  [x |-> RatDiv(xPx, transform), y |-> RatDiv(yPx, transform)]

\* pointerState with no drag under way
IdlePointer == [dragging |-> FALSE, routerId |-> Null, pointerId |-> Null, offset |-> Null]

\* cancelDragging()
cancelDragging(page) == [page EXCEPT !.pointerState = IdlePointer]

\* setLayoutMode leaving the drag under way when layout mode is left
setLayoutModeNoCancelMutant(page, enabled) ==
    IF page.layoutMode = enabled THEN page
    ELSE LET switched == [page EXCEPT !.layoutMode = enabled]
         IN  draw(IF enabled THEN rebuildLinkPaths(switched) ELSE switched)

\* setLayoutMode(enabled)
setLayoutMode(page, enabled) ==
    IF page.layoutMode = enabled THEN page
    ELSE LET switched == [page EXCEPT !.layoutMode = enabled]
         IN  draw(IF enabled THEN rebuildLinkPaths(switched) ELSE cancelDragging(switched))

ROUTER_HIT_RADIUS == 24

(* findRouterAtPoint(point): the first router within the hit radius, the     *)
(* distance Math.hypot(dx, dy) being compared by its square                  *)
findRouterAtPoint(page, point) ==
    IF IsNull(page.topology) THEN Null
    ELSE LET routers == Val(page.topology).routers
             squared(r) == RatAdd(RatMul(RatSub(routers[r].position.x, point.x),
                                         RatSub(routers[r].position.x, point.x)),
                                  RatMul(RatSub(routers[r].position.y, point.y),
                                         RatSub(routers[r].position.y, point.y)))
             hit == {r \in 1..Len(routers) :
                        ~RatLt(Num(ROUTER_HIT_RADIUS * ROUTER_HIT_RADIUS), squared(r))}
         IN  IF hit = {} THEN Null
             ELSE Some(routers[CHOOSE r \in hit : \A q \in hit : r <= q])

\* handlePointerDown(event)
handlePointerDown(page, event) ==
    IF ~page.layoutMode \/ IsNull(page.topology) THEN page
    ELSE LET point == screenToMap(page, event.clientX, event.clientY)
             router == findRouterAtPoint(page, point)
         IN  IF IsNull(router) THEN page
             ELSE [page EXCEPT !.pointerState =
                      [dragging |-> TRUE,
                       routerId |-> Some(Val(router).id),
                       pointerId |-> Some(event.pointerId),
                       offset |-> Some([x |-> RatSub(Val(router).position.x, point.x),
                                        y |-> RatSub(Val(router).position.y, point.y)])]]

\* topology.routers with the position of the first router of that id replaced
MoveRouter(routers, id, position) ==
    LET first == CHOOSE r \in 1..Len(routers) :
                    /\ routers[r].id = id
                    /\ \A q \in 1..Len(routers) : routers[q].id = id => r <= q
    IN  [routers EXCEPT ![first].position = position]

\* where handlePointerMove puts the dragged router
DraggedTo(page, event) ==
    LET point == screenToMap(page, event.clientX, event.clientY)
        offset == IF IsNull(page.pointerState.offset) THEN [x |-> Zero, y |-> Zero]
                  ELSE Val(page.pointerState.offset)
    IN  [x |-> Num(RatRound(RatAdd(point.x, offset.x))),
         y |-> Num(RatRound(RatAdd(point.y, offset.y)))]

\* handlePointerMove drawing without rebuildLinkPaths
handlePointerMoveNoRebuildMutant(page, event) ==
    IF \/ ~page.pointerState.dragging
       \/ page.pointerState.pointerId # Some(event.pointerId)
       \/ IsNull(page.topology)
    THEN page
    ELSE IF IsNull(FindById(Val(page.topology).routers, Val(page.pointerState.routerId)))
    THEN page
    ELSE LET topology == Val(page.topology)
             moved == [topology EXCEPT !.routers =
                          MoveRouter(topology.routers, Val(page.pointerState.routerId),
                                     DraggedTo(page, event))]
         IN  draw([page EXCEPT !.topology = Some(moved)])

\* handlePointerMove(event)
handlePointerMove(page, event) ==
    IF \/ ~page.pointerState.dragging
       \/ page.pointerState.pointerId # Some(event.pointerId)
       \/ IsNull(page.topology)
    THEN page
    ELSE IF IsNull(FindById(Val(page.topology).routers, Val(page.pointerState.routerId)))
    THEN page
    ELSE LET topology == Val(page.topology)
             moved == [topology EXCEPT !.routers =
                          MoveRouter(topology.routers, Val(page.pointerState.routerId),
                                     DraggedTo(page, event))]
         IN  draw(rebuildLinkPaths([page EXCEPT !.topology = Some(moved)]))

\* handlePointerUp(event), the listener of pointerup and of pointercancel
handlePointerUp(page, event) ==
    IF ~page.pointerState.dragging THEN page
    ELSE IF page.pointerState.pointerId = Some(event.pointerId) THEN cancelDragging(page)
    ELSE page

\* the keydown listener, for the key Escape
handleEscape(page) == IF page.layoutMode THEN setLayoutMode(page, FALSE) ELSE page

\* the resize listener, the window having taken the size `window`
handleResize(page, window) ==
    LET resized == [page EXCEPT !.window = window]
    IN  IF IsNull(page.topology) THEN resized ELSE draw(resizeCanvas(resized))

\* applyTopology(next)
applyTopology(page, next) ==
    draw(resizeCanvas(rebuildLinkPaths(rebuildLinkCapacities(
            [page EXCEPT !.topology = Some(next)]))))

\* handleServerMessage(message)
handleServerMessage(page, message) ==
    IF message.type = "topology" THEN applyTopology(page, message.topology)
    ELSE draw(rebuildLinkCapacities([page EXCEPT !.metrics = Some(message)]))

\* the page as the script leaves it before any message
\* the sizes the window takes: innerWidth, innerHeight and devicePixelRatio
WindowSizes ==
    << [innerWidth |-> 800, innerHeight |-> 600, devicePixelRatio |-> 1],
       [innerWidth |-> 800, innerHeight |-> 700, devicePixelRatio |-> 2] >>

NewPage ==
    [topology |-> Null, metrics |-> Null, linkCapacityMap |-> <<>>, capacityRange |-> Null,
     linkPathMap |-> <<>>, canvas |-> Null,
     layoutMode |-> FALSE,
     pointerState |-> IdlePointer,
     window |-> WindowSizes[1],
     renderState |-> [baseWidth |-> WindowSizes[1].innerWidth,
                      baseHeight |-> WindowSizes[1].innerHeight,
                      scale |-> Num(1),
                      dpr |-> WindowSizes[1].devicePixelRatio],
     canvasSize |-> [width |-> 300, height |-> 150,
                     styleWidth |-> Num(300), styleHeight |-> Num(150)]]

(***************************************************************************)
(* The scenes the renderers are given: two routers A and B, A with the     *)
(* interfaces x and u, B with y and v, and the links a1 (x to y), b2 (u to *)
(* y) and c3 (u to v), each declared in either direction.                  *)
(***************************************************************************)
\* link id between A and B, declared from `from`, with the manual waypoints `path`
SceneLink(id, from, path) ==
    LET ifaceA == IF id = "a1" THEN "x" ELSE "u"
        ifaceB == IF id = "c3" THEN "v" ELSE "y"
    IN  [id |-> id,
         from |-> from,
         to |-> IF from = "A" THEN "B" ELSE "A",
         ifaceFrom |-> IF from = "A" THEN ifaceA ELSE ifaceB,
         ifaceTo |-> IF from = "A" THEN ifaceB ELSE ifaceA,
         path |-> path]

(* Where A and B stand and which links join them. The distances are those   *)
(* at which every path has segments of rational length.                     *)
Layouts ==
    { [A |-> Point(0, 0), B |-> Point(300, 0),
       links |-> <<SceneLink("a1", "A", <<>>)>>],
      [A |-> Point(0, 0), B |-> Point(30, 0),
       links |-> <<SceneLink("a1", "A", <<>>), SceneLink("b2", "A", <<>>)>>],
      [A |-> Point(0, 0), B |-> Point(18, 24),
       links |-> <<SceneLink("a1", "A", <<>>), SceneLink("b2", "B", <<>>)>>],
      [A |-> Point(630, 0), B |-> Point(0, 0),
       links |-> <<SceneLink("b2", "B", <<>>), SceneLink("a1", "A", <<>>)>>],
      [A |-> Point(0, 0), B |-> Point(60, 0),
       links |-> <<SceneLink("a1", "A", <<>>), SceneLink("b2", "A", <<>>),
                   SceneLink("c3", "A", <<>>)>>],
      [A |-> Point(0, 0), B |-> Point(0, 600),
       links |-> <<SceneLink("a1", "A", <<>>), SceneLink("c3", "B", <<>>),
                   SceneLink("b2", "A", <<>>)>>],
      [A |-> Point(0, 0), B |-> Point(30, 0),
       links |-> <<SceneLink("a1", "A", <<Point(0, 40), Point(30, 40)>>),
                   SceneLink("b2", "A", <<>>)>>],
      [A |-> Point(0, 0), B |-> Point(60, 0),
       links |-> <<SceneLink("a1", "A", <<>>), SceneLink("b2", "B", <<Point(30, 40)>>),
                   SceneLink("c3", "A", <<>>)>>],
      [A |-> Point(7, 7), B |-> Point(7, 7),
       links |-> <<SceneLink("a1", "A", <<>>), SceneLink("b2", "A", <<>>)>>] }

(* An interface's capacity in the topology (max_bandwidth, absent when not   *)
(* configured) and in the metrics (the probed speed when there is one, else  *)
(* max_bandwidth, else 0).                                                   *)
InterfaceCapacities ==
    { [definition |-> Null, metric |-> 0],
      [definition |-> Null, metric |-> 80],
      [definition |-> Some(40), metric |-> 40],
      [definition |-> Some(40), metric |-> 160],
      [definition |-> Some(160), metric |-> 160] }

SceneInterfaceMetrics(name, maxBandwidth, inUtilization, outUtilization) ==
    [name |-> name, maxBandwidth |-> maxBandwidth,
     inUtilization |-> inUtilization, outUtilization |-> outUtilization]

(* The topology and the metrics payload of one scene: the payload has every  *)
(* router and every link of the topology, as buildMetricsPayload leaves it.  *)
(* `statuses` are the statuses of A and of B.                                *)
Scene(layout, x, y, statuses) ==
    LET interfacesA == ("x" :> SceneInterfaceMetrics("x", x.metric, Rat(1, 2), Rat(1, 4)))
                        @@ ("u" :> SceneInterfaceMetrics("u", 160, Zero, Rat(1, 200)))
        interfacesB == ("y" :> SceneInterfaceMetrics("y", y.metric, Rat(95, 100), Rat(105, 100)))
                        @@ ("v" :> SceneInterfaceMetrics("v", 80, Rat(85, 100), Rat(3, 10)))
        side(routerId, name) ==
            IF routerId = "A" THEN Some(interfacesA[name]) ELSE Some(interfacesB[name])
    IN  [topology |->
            [routers |->
                << [id |-> "A", position |-> layout.A,
                    interfaces |-> << [name |-> "x", maxBandwidth |-> x.definition],
                                      [name |-> "u", maxBandwidth |-> Some(160)] >>],
                   [id |-> "B", position |-> layout.B,
                    interfaces |-> << [name |-> "y", maxBandwidth |-> y.definition],
                                      [name |-> "v", maxBandwidth |-> Some(80)] >>] >>,
             links |-> layout.links],
         metrics |->
            [type |-> "metrics",
             routers |-> ("A" :> [status |-> statuses[1], interfaces |-> interfacesA])
                          @@ ("B" :> [status |-> statuses[2], interfaces |-> interfacesB]),
             links |-> [l \in 1..Len(layout.links) |->
                          [id |-> layout.links[l].id,
                           forward |-> side(layout.links[l].from, layout.links[l].ifaceFrom),
                           reverse |-> side(layout.links[l].to, layout.links[l].ifaceTo)]]]]

Scenes ==
    {Scene(layout, x, y, statuses) :
        layout \in Layouts, x \in InterfaceCapacities, y \in InterfaceCapacities,
        statuses \in {<<"warning", "critical">>, <<"ok", "error">>}}

(* The scenes of the interactive view: B stands at (30, 0) and A at (0, 0),  *)
(* joined by two links without waypoints, by one link with a waypoint and   *)
(* one without, or by a single link; the map is 1600 by 1200, drawn at half *)
(* its size in the windows of WindowSizes.                                   *)
InteractiveLayouts ==
    { [A |-> Point(0, 0), B |-> Point(30, 0),
       links |-> <<SceneLink("a1", "A", <<>>), SceneLink("b2", "B", <<>>)>>],
      [A |-> Point(0, 0), B |-> Point(30, 0),
       links |-> <<SceneLink("a1", "A", <<Point(30, 40)>>), SceneLink("b2", "A", <<>>)>>],
      [A |-> Point(0, 0), B |-> Point(30, 0),
       links |-> <<SceneLink("a1", "A", <<>>)>>] }

InteractiveScenes ==
    {LET whole == Scene(layout, [definition |-> Some(40), metric |-> 40],
                        [definition |-> Some(160), metric |-> 160], <<"ok", "error">>)
     IN  [topology |-> ("mapSize" :> [width |-> 1600, height |-> 1200]) @@ whole.topology,
          metrics |-> whole.metrics] :
        layout \in InteractiveLayouts}

(* The pointer events of the interactive view: two pointers, at the client   *)
(* positions that screenToMap takes to (2, 4), (62, 4) and (32, 34), each    *)
(* within the hit radius of one of the places A is dragged to.               *)
PointerIds == {1, 2}

PointerEvents ==
    {[pointerId |-> id, clientX |-> at[1], clientY |-> at[2]] :
        id \in PointerIds, at \in {<<1, 2>>, <<31, 2>>, <<16, 17>>}}

\* a scene without routers, for the runs that draw nothing
NoScene ==
    [topology |-> [routers |-> <<>>, links |-> <<>>],
     metrics |-> [type |-> "metrics", routers |-> <<>>, links |-> <<>>]]

(* The arguments of computeAutoPath: router positions at the distances 0,    *)
(* 30, 60, 150, 300, 600 and 630, along the axes and along a 3-4-5 slope.    *)
PathPositions ==
    {Point(0, 0), Point(30, 0), Point(0, 60), Point(90, 120), Point(300, 0),
     Point(360, 480), Point(0, 630)}

MaxGroupSize == 3

\* from the origin to a position or back, for every index of every group size
AutoPathCalls ==
    {[from |-> IF outward THEN Point(0, 0) ELSE position,
      to |-> IF outward THEN position ELSE Point(0, 0),
      groupSize |-> slot[1], index |-> slot[2], result |-> Null] :
        position \in PathPositions, outward \in BOOLEAN,
        slot \in {g \in (1..MaxGroupSize) \X (0..(MaxGroupSize - 1)) : g[2] < g[1]}}

NoCall ==
    [from |-> Point(0, 0), to |-> Point(0, 0), groupSize |-> 1, index |-> 0, result |-> Null]

(* The arguments of splitPathAtHalf: the paths of up to MaxPathLen points    *)
(* over the corners of a 30 by 40 rectangle, whose sides and diagonals have  *)
(* rational lengths.                                                         *)
MaxPathLen == 4

Corners == {Point(0, 0), Point(30, 0), Point(30, 40), Point(0, 40)}

SplitCalls ==
    {[function |-> "splitPathAtHalf", path |-> path, result |-> Null] :
        path \in UNION {[1..n -> Corners] : n \in 0..MaxPathLen}}

(* The arguments of utilToColor: null, NaN, the hundredths from -0.05 to     *)
(* MaxPercent / 100, and the thousandths next to the first and the last      *)
(* boundary.                                                                 *)
MaxPercent == 110

Utilizations ==
    {Null, Some(NaN), Some(Rat(-1, 2)), Some(Rat(9, 1000)), Some(Rat(11, 1000)),
     Some(Rat(989, 1000)), Some(Rat(1009, 1000)), Some(Rat(5, 1))}
        \cup {Some(Rat(k, 100)) : k \in (-5)..MaxPercent}

ColorCalls ==
    {[function |-> "utilToColor", utilization |-> utilization, result |-> Null] :
        utilization \in Utilizations}

(* The arguments of capacityToWidth: two capacities, for the two widths to   *)
(* be compared, and a range. The positive numbers are 10 times a power of    *)
(* two, or below them all.                                                   *)
Capacities == {Null, Some(0), Some(-40), Some(5), Some(10), Some(20), Some(40), Some(80),
               Some(160), Some(320)}

CapacityRanges ==
    {Null} \cup {Some([min |-> min, max |-> max]) :
                    min \in {-10, 0, 10, 40, 160}, max \in {10, 40, 160}}

WidthCalls ==
    {[function |-> "capacityToWidth", capacity |-> pair[1], larger |-> pair[2],
      range |-> range, result |-> Null] :
        pair \in {q \in Capacities \X Capacities :
                     IsNull(q[1]) \/ IsNull(q[2]) \/ Val(q[1]) <= Val(q[2])},
        range \in {r \in CapacityRanges : IsNull(r) \/ Val(r).min <= Val(r).max}}

NoHelperCall == [function |-> "none", result |-> Null]

(***************************************************************************)
(* The poll loop.                                                          *)
(***************************************************************************)
VARIABLES
    runtime,        \* runtime.config: the file it was loaded from
    pc,             \* pollLoop: "start", "polling", "saving", "scheduled", "failed"
    cycleCfg,       \* the routerPollConfig handed to pollRouters in this cycle
    pending,        \* the routers whose pollRouter has not resolved yet
    now,            \* Date.now() of this cycle's pollRouter calls
    snapshot,       \* the samples of the routers that have resolved
    probeLog,       \* per resolved router: the responses it got, the cache entries it read
    sampleCache,    \* snmp.ts sampleCache
    latestMetrics,  \* backend.ts latestMetrics
    resolvedWith,   \* the configuration latestMetrics was resolved against
    cycles,         \* cycles started
    timers,         \* pending calls of pollLoop: the first one and the setTimeout ones
    inflight,       \* pollRouter calls still running after their Promise.all rejected
    lastBuilt,      \* the last cycle that built its payload, 0 before the first
    renderedWith,   \* the configuration whose topology went to renderMapSnapshot
    latestImagePath,\* the cycle of the last image written
    http,           \* the last response of GET /api/metrics
    client,         \* a WebSocket client: what it has received
    scene,          \* the topology and the metrics payload handed to the renderers
    page,           \* frontend/main.ts: the state of the page
    image,          \* what renderMapSnapshot drew
    autoPathCall,   \* a call of computeAutoPath: its arguments and its result
    helperCall      \* a call of splitPathAtHalf, utilToColor or capacityToWidth

loopVars == <<timers, inflight, lastBuilt, renderedWith, latestImagePath>>
consumerVars == <<http, client>>
renderVars == <<scene, page, image, autoPathCall, helperCall>>
serverVars == <<runtime, pc, cycleCfg, pending, now, snapshot, probeLog, sampleCache,
                latestMetrics, resolvedWith, cycles, loopVars, consumerVars>>

vars == <<serverVars, renderVars>>

\* nothing has been drawn
InitRenderers(scenes, calls) ==
    /\ scene \in scenes
    /\ page = NewPage
    /\ image = Null
    /\ autoPathCall \in calls
    /\ helperCall = NoHelperCall

InitServerWith(files) ==
    /\ runtime \in files
    /\ pc = "start"
    /\ cycleCfg = runtime
    /\ pending = {}
    /\ now = 0
    /\ snapshot = <<>>
    /\ probeLog = <<>>
    /\ sampleCache = <<>>
    /\ latestMetrics = Null
    /\ resolvedWith = runtime
    /\ cycles = 0
    /\ timers = 1
    /\ inflight = {}
    /\ lastBuilt = 0
    /\ renderedWith = runtime
    /\ latestImagePath = Null
    /\ http = [status |-> 0, body |-> Null]
    /\ client = [open |-> FALSE, topology |-> 0, metrics |-> Null]

InitWith(files) == InitServerWith(files) /\ InitRenderers({NoScene}, {NoCall})

\* the two-router topology
Init == InitWith({1})

\* one router with one interface, in each of its configurations
InitSampler == InitWith(4..8)

\* two routers that both wait for their devices, without and with the numeric OID
InitServer == InitWith({9, 10})

\* one router, without and with a second router that has the numeric OID
InitConsumers == InitWith({11, 12})

\* pollRouter reaches an await: some interface of the router has a valid counter OID
AwaitsProbe(router) ==
    \E i \in 1..Len(router.interfaces) : PrepareInterface(router.interfaces[i]).hasCounters

\* StartCycle with the setTimeout call at the end of the try block, not in finally
StartCycleNoFinallyMutant ==
    /\ pc \in {"start", "scheduled", "failed"}
    /\ timers > 0
    /\ cycles < MaxCycles
    /\ cycleCfg' = runtime
    /\ now' \in IF cycles = 0 THEN {0} ELSE Times
    /\ cycles' = cycles + 1
    /\ LET routers == Config(runtime).routerPollConfig
           thrown == {id \in RouterIds(routers) : pollRouterThrows(RouterById(routers, id))}
           awaiting == {id \in RouterIds(routers) \ thrown :
                          AwaitsProbe(RouterById(routers, id))}
           returned == (RouterIds(routers) \ thrown) \ awaiting
           result(id) == LET router == RouterById(routers, id)
                         IN  pollRouter(id, router, sampleCache, now',
                                        [n \in IfaceNames(router.interfaces) |-> NoResponse])
       IN  IF thrown = {}
           THEN /\ pc' = "polling"
                /\ timers' = timers - 1
                /\ pending' = awaiting
                /\ snapshot' = [id \in returned |-> result(id).sample]
                /\ probeLog' = [id \in returned |->
                                  [responses |->
                                      [n \in IfaceNames(RouterById(routers, id).interfaces)
                                          |-> NoResponse],
                                   previous |-> result(id).previous]]
                /\ UNCHANGED inflight
           ELSE /\ pc' = "failed"
                /\ timers' = timers - 1
                /\ inflight' = inflight \cup
                                 {[id |-> id, cfg |-> runtime, now |-> now',
                                   cycle |-> cycles'] : id \in awaiting}
                /\ UNCHANGED <<pending, snapshot, probeLog>>
    /\ UNCHANGED <<runtime, sampleCache, latestMetrics, resolvedWith, lastBuilt,
                   renderedWith, latestImagePath, consumerVars,
                   renderVars>>

(* pollLoop up to its first await: pollRouters(runtime.config.routerPollConfig) *)
(* calls pollRouter for every router; a call that has nothing to probe       *)
(* returns its sample without awaiting, the others wait for their devices.   *)
(* Only differences of Date.now() are read, so the first cycle's is fixed.   *)
(* When a call throws, Promise.all rejects at once: pollLoop logs the error  *)
(* and its finally block sets the timer, while the calls that were started   *)
(* go on waiting for their devices.                                          *)
StartCycle ==
    /\ pc \in {"start", "scheduled", "failed"}
    /\ timers > 0
    /\ cycles < MaxCycles
    /\ cycleCfg' = runtime
    /\ now' \in IF cycles = 0 THEN {0} ELSE Times
    /\ cycles' = cycles + 1
    /\ LET routers == Config(runtime).routerPollConfig
           thrown == {id \in RouterIds(routers) : pollRouterThrows(RouterById(routers, id))}
           awaiting == {id \in RouterIds(routers) \ thrown :
                          AwaitsProbe(RouterById(routers, id))}
           returned == (RouterIds(routers) \ thrown) \ awaiting
           result(id) == LET router == RouterById(routers, id)
                         IN  pollRouter(id, router, sampleCache, now',
                                        [n \in IfaceNames(router.interfaces) |-> NoResponse])
       IN  IF thrown = {}
           THEN /\ pc' = "polling"
                /\ timers' = timers - 1
                /\ pending' = awaiting
                /\ snapshot' = [id \in returned |-> result(id).sample]
                /\ probeLog' = [id \in returned |->
                                  [responses |->
                                      [n \in IfaceNames(RouterById(routers, id).interfaces)
                                          |-> NoResponse],
                                   previous |-> result(id).previous]]
                /\ UNCHANGED inflight
           ELSE /\ pc' = "failed"
                /\ timers' = (timers - 1) + 1
                /\ inflight' = inflight \cup
                                 {[id |-> id, cfg |-> runtime, now |-> now',
                                   cycle |-> cycles'] : id \in awaiting}
                /\ UNCHANGED <<pending, snapshot, probeLog>>
    /\ UNCHANGED <<runtime, sampleCache, latestMetrics, resolvedWith, lastBuilt,
                   renderedWith, latestImagePath, consumerVars,
                   renderVars>>

\* pollRouter(id, router) resolves, having got `responses` from the device
PollRouterDone(id) ==
    /\ pc = "polling"
    /\ id \in pending
    /\ LET router == RouterById(Config(cycleCfg).routerPollConfig, id)
       IN  \E responses \in RouterResponses(router) :
              LET res == pollRouter(id, router, sampleCache, now, responses)
              IN  /\ snapshot' = (id :> res.sample) @@ snapshot
                  /\ probeLog' = (id :> [responses |-> responses,
                                         previous |-> res.previous]) @@ probeLog
                  /\ sampleCache' = res.cache
    /\ pending' = pending \ {id}
    /\ UNCHANGED <<runtime, pc, cycleCfg, now, latestMetrics, resolvedWith, cycles,
                   loopVars, consumerVars,
                   renderVars>>

(* A pollRouter call of a cycle whose Promise.all has rejected resolves: its *)
(* sample goes nowhere, its cache writes are made.                           *)
AbandonedPollRouterDone(call) ==
    /\ call \in inflight
    /\ LET router == RouterById(Config(call.cfg).routerPollConfig, call.id)
       IN  \E responses \in RouterResponses(router) :
              sampleCache' = pollRouter(call.id, router, sampleCache, call.now,
                                        responses).cache
    /\ inflight' = inflight \ {call}
    /\ UNCHANGED <<runtime, pc, cycleCfg, pending, now, snapshot, probeLog,
                   latestMetrics, resolvedWith, cycles, timers, lastBuilt,
                   renderedWith, latestImagePath, consumerVars,
                   renderVars>>

\* Publish run as soon as pollLoop is polling, without awaiting every pollRouter
PublishEagerMutant ==
    /\ pc = "polling"
    /\ LET topology == Config(runtime).topology
           routers == toRouterMetrics(snapshot, topology)
           links == toLinkMetrics(routers, topology.links)
           payload == [timestamp |-> cycles, routers |-> routers, links |-> links]
       IN  /\ latestMetrics' = Some(payload)
           /\ client' = IF client.open THEN [client EXCEPT !.metrics = Some(payload)]
                        ELSE client
    /\ resolvedWith' = runtime
    /\ renderedWith' = runtime
    /\ lastBuilt' = cycles
    /\ pc' = "saving"
    /\ UNCHANGED <<runtime, cycleCfg, pending, now, snapshot, probeLog, sampleCache,
                   cycles, timers, inflight, latestImagePath, http,
                   renderVars>>

(* pollLoop after await pollRouters: resolve against runtime.config, set     *)
(* latestMetrics, broadcast, and call saveSnapshotImage, which reads         *)
(* runtime.config.topology before it awaits. The payload's timestamp is      *)
(* kept as the number of its cycle.                                          *)
Publish ==
    /\ pc = "polling"
    /\ pending = {}
    /\ LET topology == Config(runtime).topology
           routers == toRouterMetrics(snapshot, topology)
           links == toLinkMetrics(routers, topology.links)
           payload == [timestamp |-> cycles, routers |-> routers, links |-> links]
       IN  /\ latestMetrics' = Some(payload)
           /\ client' = IF client.open THEN [client EXCEPT !.metrics = Some(payload)]
                        ELSE client
    /\ resolvedWith' = runtime
    /\ renderedWith' = runtime
    /\ lastBuilt' = cycles
    /\ pc' = "saving"
    /\ UNCHANGED <<runtime, cycleCfg, pending, now, snapshot, probeLog, sampleCache,
                   cycles, timers, inflight, latestImagePath, http,
                   renderVars>>

\* saveSnapshotImage resolves and the finally block calls setTimeout
SaveSnapshotDone ==
    /\ pc = "saving"
    /\ pc' = "scheduled"
    /\ timers' = timers + 1
    /\ latestImagePath' = Some(cycles)
    /\ UNCHANGED <<runtime, cycleCfg, pending, now, snapshot, probeLog, sampleCache,
                   latestMetrics, resolvedWith, cycles, inflight, lastBuilt,
                   renderedWith, consumerVars,
                   renderVars>>

(* renderMapSnapshot rejects (the image cannot be written): saveSnapshotImage *)
(* logs the error and returns, and the finally block calls setTimeout.       *)
SaveSnapshotFails ==
    /\ pc = "saving"
    /\ pc' = "scheduled"
    /\ timers' = timers + 1
    /\ UNCHANGED <<runtime, cycleCfg, pending, now, snapshot, probeLog, sampleCache,
                   latestMetrics, resolvedWith, cycles, inflight, lastBuilt,
                   renderedWith, latestImagePath, consumerVars,
                   renderVars>>

(* The fs.watchFile handler: runtime.config = loadRuntimeConfig() and        *)
(* broadcastTopology(), unless the loader throws. It is a task of the event  *)
(* loop: it runs while pollLoop waits for its devices, for saveSnapshotImage *)
(* or for its timer, and not between the last pollRouter resolving and       *)
(* pollLoop resuming, which are microtasks, nor before the first call of     *)
(* pollLoop, which the module makes as it loads.                             *)
Reload(file) ==
    /\ pc # "start"
    /\ ~(pc = "polling" /\ pending = {})
    /\ file \in ReloadsTo(runtime)
    /\ runtime' = IF ConfigIsValid(ConfigFiles[file]) THEN file ELSE runtime
    /\ client' = IF ConfigIsValid(ConfigFiles[file]) /\ client.open
                 THEN [client EXCEPT !.topology = file] ELSE client
    /\ UNCHANGED <<pc, cycleCfg, pending, now, snapshot, probeLog, sampleCache,
                   latestMetrics, resolvedWith, cycles, loopVars, http,
                   renderVars>>

\* GET /api/metrics answering res.json(latestMetrics) without the 204 branch
metricsResponseNo204Mutant(latest) == [status |-> 200, body |-> latest]

\* the response of GET /api/metrics
metricsResponse(latest) ==
    IF IsNull(latest) THEN [status |-> 204, body |-> Null]
    ELSE [status |-> 200, body |-> latest]

\* a client requests GET /api/metrics
GetMetrics ==
    /\ http' = metricsResponse(latestMetrics)
    /\ UNCHANGED <<runtime, pc, cycleCfg, pending, now, snapshot, probeLog, sampleCache,
                   latestMetrics, resolvedWith, cycles, loopVars, client,
                   renderVars>>

(* wss.on("connection"): the socket is sent the topology message, then       *)
(* latestMetrics when there is one.                                          *)
Connect ==
    /\ ~client.open
    /\ client' = [open |-> TRUE, topology |-> runtime, metrics |-> latestMetrics]
    /\ UNCHANGED <<runtime, pc, cycleCfg, pending, now, snapshot, probeLog, sampleCache,
                   latestMetrics, resolvedWith, cycles, loopVars, http,
                   renderVars>>

Next ==
    \/ StartCycle
    \/ \E id \in pending : PollRouterDone(id)
    \/ Publish
    \/ SaveSnapshotDone
    \/ \E file \in 1..Len(ConfigFiles) : Reload(file)

Spec == Init /\ [][Next]_vars

SpecSampler == InitSampler /\ [][Next]_vars

\* the poll loop with its failures
NextServer ==
    \/ StartCycle
    \/ \E id \in pending : PollRouterDone(id)
    \/ \E call \in inflight : AbandonedPollRouterDone(call)
    \/ Publish
    \/ SaveSnapshotDone
    \/ SaveSnapshotFails
    \/ \E file \in 1..Len(ConfigFiles) : Reload(file)

SpecServer == InitServer /\ [][NextServer]_vars

\* the poll loop with its failures, and the consumers of latestMetrics
NextConsumers ==
    \/ NextServer
    \/ GetMetrics
    \/ Connect

SpecConsumers == InitConsumers /\ [][NextConsumers]_vars

(***************************************************************************)
(* The renderers. The page gets the topology (from GET /api/topology or a  *)
(* topology message) and the metrics payloads over its WebSocket; the      *)
(* server hands the same topology and payload to renderMapSnapshot.        *)
(***************************************************************************)
\* the page receives the topology: applyTopology
TopologyMessage ==
    /\ page' = handleServerMessage(page, [type |-> "topology", topology |-> scene.topology])
    /\ UNCHANGED <<serverVars, scene, image, autoPathCall, helperCall>>

\* the page receives the metrics payload
MetricsMessage ==
    /\ page' = handleServerMessage(page, scene.metrics)
    /\ UNCHANGED <<serverVars, scene, image, autoPathCall, helperCall>>

\* saveSnapshotImage calls renderMapSnapshot
RenderSnapshot ==
    /\ image' = Some(renderMapSnapshot(scene.topology, scene.metrics))
    /\ UNCHANGED <<serverVars, scene, page, autoPathCall, helperCall>>

InitRender == InitServerWith({1}) /\ InitRenderers(Scenes, {NoCall})

NextRender == TopologyMessage \/ MetricsMessage \/ RenderSnapshot

SpecRender == InitRender /\ [][NextRender]_vars

(***************************************************************************)
(* The interactive view: the page under its messages and the listeners of  *)
(* its buttons, of the Escape key, of the pointer and of the window.       *)
(***************************************************************************)
\* a click on the button exit-layout, or keydown with the key Escape
LeaveLayout(by) ==
    /\ page' = IF by = "Escape" THEN handleEscape(page) ELSE setLayoutMode(page, FALSE)
    /\ UNCHANGED <<serverVars, scene, image, autoPathCall, helperCall>>

\* a click on the button toggle-layout
ToggleLayout ==
    /\ page' = setLayoutMode(page, ~page.layoutMode)
    /\ UNCHANGED <<serverVars, scene, image, autoPathCall, helperCall>>

PointerDown(event) ==
    /\ page' = handlePointerDown(page, event)
    /\ UNCHANGED <<serverVars, scene, image, autoPathCall, helperCall>>

PointerMove(event) ==
    /\ page' = handlePointerMove(page, event)
    /\ UNCHANGED <<serverVars, scene, image, autoPathCall, helperCall>>

\* pointerup or pointercancel
PointerUp(event) ==
    /\ page' = handlePointerUp(page, event)
    /\ UNCHANGED <<serverVars, scene, image, autoPathCall, helperCall>>

\* the window takes another size
Resize(window) ==
    /\ window # page.window
    /\ page' = handleResize(page, window)
    /\ UNCHANGED <<serverVars, scene, image, autoPathCall, helperCall>>

InitInteractive == InitServerWith({1}) /\ InitRenderers(InteractiveScenes, {NoCall})

NextInteractive ==
    \/ TopologyMessage
    \/ MetricsMessage
    \/ \E by \in {"exit-layout", "Escape"} : LeaveLayout(by)
    \/ ToggleLayout
    \/ \E event \in PointerEvents : PointerDown(event)
    \/ \E event \in PointerEvents : PointerMove(event)
    \/ \E event \in PointerEvents : PointerUp(event)
    \/ \E i \in 1..Len(WindowSizes) : Resize(WindowSizes[i])

SpecInteractive == InitInteractive /\ [][NextInteractive]_vars

\* computeAutoPath is called with the arguments in autoPathCall
CallComputeAutoPath ==
    /\ IsNull(autoPathCall.result)
    /\ autoPathCall' =
          [autoPathCall EXCEPT !.result = Some(computeAutoPath(autoPathCall.from,
                                               autoPathCall.to, autoPathCall.groupSize,
                                               autoPathCall.index))]
    /\ UNCHANGED <<serverVars, scene, page, image, helperCall>>

InitPaths == InitServerWith({1}) /\ InitRenderers({NoScene}, AutoPathCalls)

NextPaths == CallComputeAutoPath

SpecPaths == InitPaths /\ [][NextPaths]_vars

\* drawLink calls splitPathAtHalf with the path in helperCall
CallSplitPathAtHalf ==
    /\ helperCall.function = "splitPathAtHalf"
    /\ IsNull(helperCall.result)
    /\ helperCall' = [helperCall EXCEPT !.result = Some(splitPathAtHalf(helperCall.path))]
    /\ UNCHANGED <<serverVars, scene, page, image, autoPathCall>>

\* drawLink calls utilToColor with the utilization in helperCall
CallUtilToColor ==
    /\ helperCall.function = "utilToColor"
    /\ IsNull(helperCall.result)
    /\ helperCall' = [helperCall EXCEPT !.result = Some(utilToColor(helperCall.utilization))]
    /\ UNCHANGED <<serverVars, scene, page, image, autoPathCall>>

\* drawLink calls capacityToWidth for two links of the capacities in helperCall
CallCapacityToWidth ==
    /\ helperCall.function = "capacityToWidth"
    /\ IsNull(helperCall.result)
    /\ helperCall' =
          [helperCall EXCEPT !.result =
              Some([width |-> capacityToWidth(helperCall.capacity, helperCall.range),
                    widthLarger |-> capacityToWidth(helperCall.larger, helperCall.range)])]
    /\ UNCHANGED <<serverVars, scene, page, image, autoPathCall>>

InitHelpers ==
    /\ InitServerWith({1})
    /\ scene = NoScene
    /\ page = NewPage
    /\ image = Null
    /\ autoPathCall = NoCall
    /\ \/ helperCall \in SplitCalls
       \/ helperCall \in ColorCalls
       \/ helperCall \in WidthCalls

NextHelpers == CallSplitPathAtHalf \/ CallUtilToColor \/ CallCapacityToWidth

SpecHelpers == InitHelpers /\ [][NextHelpers]_vars


\* the calls of pollRouters in a behaviour of the sampler on its own
MaxPolls == 3

(* The sampler on its own: pollRouters(routers) is called MaxPolls times on  *)
(* end for a configuration of one router, whose pollRouter call is the only  *)
(* one of the cycle. Date.now() does not go back and advances by 1000 or not *)
(* at all between two calls.                                                 *)
PollRoutersCall ==
    /\ cycles < MaxPolls
    /\ Len(Config(runtime).routerPollConfig) = 1
    /\ now' \in IF cycles = 0 THEN {0} ELSE {now, now + 1000}
    /\ LET router == Config(runtime).routerPollConfig[1]
       IN  \E responses \in RouterResponses(router) :
              LET res == pollRouter(router.id, router, sampleCache, now', responses)
              IN  /\ snapshot' = (router.id :> res.sample)
                  /\ probeLog' = (router.id :> [responses |-> responses,
                                                previous |-> res.previous])
                  /\ sampleCache' = res.cache
    /\ cycles' = cycles + 1
    /\ cycleCfg' = runtime
    /\ UNCHANGED <<runtime, pc, pending, latestMetrics, resolvedWith, loopVars,
                   consumerVars, renderVars>>

\* the poll loop without replacements of the configuration
NextKeys ==
    \/ StartCycle
    \/ \E id \in pending : PollRouterDone(id)
    \/ Publish
    \/ SaveSnapshotDone

\* two routers whose interfaces have the names a, b:c and a:b, c
InitKeys == InitWith({13})
SpecKeys == InitKeys /\ [][NextKeys]_vars

\* one router with one interface whose two counters can fail or go down
InitPolls == InitWith({4})

NextPolls == PollRoutersCall

SpecPolls == InitPolls /\ [][NextPolls]_vars

(* The poll loop under the scheduling of the event loop: a timer that is    *)
(* set fires, pollLoop resumes when its promise settles, renderMapSnapshot  *)
(* resolves or rejects, and session.get calls its callback with the         *)
(* response or with a timeout error. The last one is weak fairness of       *)
(* \E id \in pending : PollRouterDone(id), written over states: that action *)
(* is enabled exactly while a router is pending, and each of its steps      *)
(* takes one router out of pending.                                         *)
SpecLive ==
    /\ InitConsumers
    /\ [][NextServer]_vars
    /\ WF_vars(StartCycle)
    /\ []<>(pc = "polling" => pending = {})
    /\ WF_vars(Publish)
    /\ WF_vars(SaveSnapshotDone \/ SaveSnapshotFails)

(***************************************************************************)
(* Reading the state.                                                      *)
(***************************************************************************)
\* the interfaces sampled so far in this cycle, as <<router id, interface name>>
Sampled ==
    UNION {{<<r, n>> : n \in DOMAIN snapshot[r].interfaces} : r \in DOMAIN snapshot}

SampleOf(p) == snapshot[p[1]].interfaces[p[2]]
PreviousOf(p) == probeLog[p[1]].previous[p[2]]
ResponseOf(p) == probeLog[p[1]].responses[p[2]]
\* the interface as the file of the cycle's configuration has it
RawIfaceOf(p) ==
    IfaceByName(RouterById(ConfigFiles[cycleCfg].routers, p[1]).interfaces, p[2])

ElapsedOf(p) == IF IsNull(PreviousOf(p)) THEN 0 ELSE now - Val(PreviousOf(p)).timestamp
OctetsOf(ifaceSample, direction) ==
    IF direction = "in" THEN ifaceSample.inOctets ELSE ifaceSample.outOctets
BpsOf(ifaceSample, direction) ==
    IF direction = "in" THEN ifaceSample.inBps ELSE ifaceSample.outBps
CachedOf(p, direction) ==
    IF direction = "in" THEN Val(PreviousOf(p)).inOctets ELSE Val(PreviousOf(p)).outOctets

\* a dotted numeric string, stated on the segments
IsNumericOid(raw) ==
    LET segments == SelectSeq(raw, LAMBDA seg : seg # "")
    IN  Len(segments) > 0 /\ \A i \in 1..Len(segments) : segments[i] \in NumericSegments

\* the probe of p asked for its speed OID
AskedSpeed(p) ==
    /\ HasOid(RawIfaceOf(p).oid_speed)
    /\ IsNumericOid(RawIfaceOf(p).oid_speed)
    /\ IsNumericOid(RawIfaceOf(p).oid_in) \/ IsNumericOid(RawIfaceOf(p).oid_out)

\* every OID of p is well formed, its probe was answered, every varbind is a number
CleanProbe(p) ==
    /\ IsNumericOid(RawIfaceOf(p).oid_in)
    /\ IsNumericOid(RawIfaceOf(p).oid_out)
    /\ HasOid(RawIfaceOf(p).oid_speed) => IsNumericOid(RawIfaceOf(p).oid_speed)
    /\ ResponseOf(p).err = ""
    /\ \A i \in 1..Len(ResponseOf(p).varbinds) : ResponseOf(p).varbinds[i].kind = "num"

\* the number the speed OID answered, the speed varbind being the last of the response
ProbedSpeed(p) ==
    IF AskedSpeed(p) /\ ResponseOf(p).err = "" /\ Len(ResponseOf(p).varbinds) > 0
    THEN LET varbind == ResponseOf(p).varbinds[Len(ResponseOf(p).varbinds)]
         IN  IF varbind.kind = "num" THEN Some(varbind.value) ELSE Null
    ELSE Null

SpeedScale(p) ==
    IF RawIfaceOf(p).oid_speed_scale > 0 THEN RawIfaceOf(p).oid_speed_scale ELSE 1

EffectiveCapacity(p) ==
    IF ~IsNull(ProbedSpeed(p)) /\ Val(ProbedSpeed(p)) > 0
    THEN Val(ProbedSpeed(p)) * SpeedScale(p)
    ELSE IF RawIfaceOf(p).max_bandwidth > 0 THEN RawIfaceOf(p).max_bandwidth
    ELSE 0

MalformedOid(p) ==
    \/ ~IsNumericOid(RawIfaceOf(p).oid_in)
    \/ ~IsNumericOid(RawIfaceOf(p).oid_out)
    \/ HasOid(RawIfaceOf(p).oid_speed) /\ ~IsNumericOid(RawIfaceOf(p).oid_speed)

TransportFailure(p) == ResponseOf(p).err # ""

\* the varbind that answers the in OID is the first, the one for the out OID follows it
ReadingMissing(p) ==
    /\ ResponseOf(p).err = ""
    /\ \E i \in 1..Len(ResponseOf(p).varbinds) :
          /\ i <= (IF IsNumericOid(RawIfaceOf(p).oid_in) THEN 1 ELSE 0)
                   + (IF IsNumericOid(RawIfaceOf(p).oid_out) THEN 1 ELSE 0)
          /\ ResponseOf(p).varbinds[i].kind # "num"

\* the cycle's payload is the one in latestMetrics
Published == pc \in {"saving", "scheduled"}

PublishedIfaces ==
    IF IsNull(latestMetrics) THEN {}
    ELSE UNION {{<<r, n>> : n \in DOMAIN Val(latestMetrics).routers[r].interfaces} :
                   r \in DOMAIN Val(latestMetrics).routers}

MetricsOf(p) == Val(latestMetrics).routers[p[1]].interfaces[p[2]]

(***************************************************************************)
(* C1. computeThroughput gives rate 0 and fresh = false, direction by       *)
(* direction, when there is no previous cache entry, when the elapsed time  *)
(* is <= 0, when the current counter is null and when the current counter   *)
(* is below the cached one; none of these cases records an error (an        *)
(* interface whose probe was clean has no error and no error status), and   *)
(* in the first cycle every interface has rate 0 and fresh = false.         *)
(***************************************************************************)
ZeroRateCase(p, direction) ==
    \/ IsNull(PreviousOf(p))
    \/ ElapsedOf(p) <= 0
    \/ IsNull(OctetsOf(SampleOf(p), direction))
    \/ Val(OctetsOf(SampleOf(p), direction)) < CachedOf(p, direction)

C1_ZeroRateWithoutError ==
    /\ \A p \in Sampled : \A direction \in {"in", "out"} :
          ZeroRateCase(p, direction) =>
              /\ computeThroughput(OctetsOf(SampleOf(p), direction), PreviousOf(p),
                                   ElapsedOf(p), direction) = [bps |-> Zero, fresh |-> FALSE]
              /\ BpsOf(SampleOf(p), direction) = Zero
              /\ ~SampleOf(p).fresh
              /\ CleanProbe(p) => SampleOf(p).error = "" /\ SampleOf(p).status # "error"
    /\ cycles = 1 =>
          /\ \A p \in Sampled :
                SampleOf(p).inBps = Zero /\ SampleOf(p).outBps = Zero /\ ~SampleOf(p).fresh
          /\ Published => \A p \in PublishedIfaces :
                MetricsOf(p).inBps = Zero /\ MetricsOf(p).outBps = Zero /\ ~MetricsOf(p).fresh

\* a wrapped in counter next to an out counter that advanced: in rate 0, out rate 72, no error
C1_Witness ==
    \E p \in Sampled :
        /\ ~IsNull(PreviousOf(p)) /\ ElapsedOf(p) > 0 /\ CleanProbe(p)
        /\ Val(SampleOf(p).inOctets) < Val(PreviousOf(p)).inOctets
        /\ SampleOf(p).inBps = Zero
        /\ SampleOf(p).outBps = Rat(72, 1)
        /\ ~SampleOf(p).fresh
        /\ SampleOf(p).error = ""

(***************************************************************************)
(* C2. With a previous entry, elapsed > 0 and a current counter that is not *)
(* below the cached one, computeThroughput gives fresh = true and the rate  *)
(* (current - previous) * 8 / (elapsed_ms / 1000), and that is the rate of  *)
(* the sample; when both directions are so, the sample is fresh.            *)
(***************************************************************************)
RateCase(p, direction) ==
    /\ ~IsNull(PreviousOf(p))
    /\ ElapsedOf(p) > 0
    /\ ~IsNull(OctetsOf(SampleOf(p), direction))
    /\ Val(OctetsOf(SampleOf(p), direction)) >= CachedOf(p, direction)

ExactRate(p, direction) ==
    Rat((Val(OctetsOf(SampleOf(p), direction)) - CachedOf(p, direction)) * 8 * 1000,
        ElapsedOf(p))

C2_ExactRate ==
    \A p \in Sampled :
        /\ \A direction \in {"in", "out"} :
              RateCase(p, direction) =>
                  /\ computeThroughput(OctetsOf(SampleOf(p), direction), PreviousOf(p),
                                       ElapsedOf(p), direction)
                        = [bps |-> ExactRate(p, direction), fresh |-> TRUE]
                  /\ BpsOf(SampleOf(p), direction) = ExactRate(p, direction)
        /\ RateCase(p, "in") /\ RateCase(p, "out") => SampleOf(p).fresh

\* 9 octets in one second in, none out: 72 bit/s and 0 bit/s, fresh
C2_Witness ==
    \E p \in Sampled :
        /\ RateCase(p, "in") /\ RateCase(p, "out")
        /\ ElapsedOf(p) = 1000
        /\ Val(SampleOf(p).inOctets) - Val(PreviousOf(p)).inOctets = 9
        /\ SampleOf(p).inBps = Rat(72, 1)
        /\ SampleOf(p).outBps = Zero
        /\ SampleOf(p).fresh


(***************************************************************************)
(* C3. metricStatus is total: "error" with an error, else "critical" from   *)
(* 0.90 up, else "warning" from 0.75 up, else "ok"; and the status of every *)
(* published interface is that function of the larger of its two published  *)
(* utilizations and of whether it carries an error.                         *)
(***************************************************************************)
ThresholdStatus(utilization, hasError) ==
    IF hasError THEN "error"
    ELSE IF utilization.n * 10 >= 9 * utilization.d THEN "critical"
    ELSE IF utilization.n * 4 >= 3 * utilization.d THEN "warning"
    ELSE "ok"

LargerOf(a, b) == IF a.n * b.d >= b.n * a.d THEN a ELSE b

C3_StatusThresholds ==
    /\ \A k \in 0..40 : \A hasError \in BOOLEAN :
          metricStatus(Rat(k, 20), hasError) = ThresholdStatus(Rat(k, 20), hasError)
    /\ \A p \in PublishedIfaces :
          MetricsOf(p).status =
              ThresholdStatus(LargerOf(MetricsOf(p).inUtilization, MetricsOf(p).outUtilization),
                              MetricsOf(p).error # "")
    /\ \A p \in Sampled :
          SampleOf(p).status =
              ThresholdStatus(LargerOf(SampleOf(p).inUtilization, SampleOf(p).outUtilization),
                              SampleOf(p).error # "")

\* a published interface at exactly 0.90 of its capacity is critical
C3_Witness ==
    \E p \in PublishedIfaces :
        /\ MetricsOf(p).error = ""
        /\ MetricsOf(p).inUtilization = Rat(9, 10)
        /\ MetricsOf(p).outUtilization = Zero
        /\ MetricsOf(p).status = "critical"

(***************************************************************************)
(* C4. A failure on one interface or one router is confined to it: every    *)
(* sibling interface is probed and its sample is computed from its own      *)
(* readings and its own cache entry, and the cycle publishes the samples of *)
(* the unaffected interfaces as they are.                                   *)
(***************************************************************************)
\* the readings of a clean probe: the in varbind is the first, the out varbind the second
OwnReading(p, direction) ==
    ResponseOf(p).varbinds[IF direction = "in" THEN 1 ELSE 2].value

OwnRate(p, direction) ==
    IF ~IsNull(PreviousOf(p)) /\ ElapsedOf(p) > 0
          /\ OwnReading(p, direction) >= CachedOf(p, direction)
    THEN Rat((OwnReading(p, direction) - CachedOf(p, direction)) * 8 * 1000, ElapsedOf(p))
    ELSE Zero

OwnUtilization(p, direction) ==
    LET rate == OwnRate(p, direction)
        capacity == IF EffectiveCapacity(p) > 0 THEN EffectiveCapacity(p) ELSE 1
    IN  Rat(rate.n, rate.d * capacity)

C5_FailureIsAnError ==
    \A p \in Sampled :
        MalformedOid(p) \/ TransportFailure(p) \/ ReadingMissing(p) =>
            SampleOf(p).error # "" /\ SampleOf(p).status = "error"

\* a probe that timed out on an interface that has a cache entry: error, rates of zero
C5_Witness ==
    \E p \in Sampled :
        /\ TransportFailure(p)
        /\ ~MalformedOid(p)
        /\ ~IsNull(PreviousOf(p))
        /\ SampleOf(p).error = "Request timed out"
        /\ SampleOf(p).status = "error"
        /\ SampleOf(p).inBps = Zero

(***************************************************************************)
(* C6. The capacity of an interface is the probed speed times the scale     *)
(* (1 when the scale is absent or not positive) when the speed OID answers  *)
(* a positive number; else the static max_bandwidth when it is positive;    *)
(* else unknown (0).                                                        *)
(***************************************************************************)
C6_EffectiveCapacity ==
    /\ \A p \in Sampled : SampleOf(p).maxBandwidth = EffectiveCapacity(p)
    /\ Published => \A p \in Sampled \cap PublishedIfaces :
          MetricsOf(p).maxBandwidth = EffectiveCapacity(p)

\* a probed speed of 2 with scale 40 on an interface without static bandwidth
C6_Witness ==
    /\ Published
    /\ \E p \in Sampled \cap PublishedIfaces :
          /\ ProbedSpeed(p) = Some(2)
          /\ SpeedScale(p) = 40
          /\ RawIfaceOf(p).max_bandwidth = 0
          /\ MetricsOf(p).maxBandwidth = 80

(***************************************************************************)
(* C7. With unknown capacity the utilization is the rate over 1 and the     *)
(* published maxBandwidth is 0; an interface of known capacity is published *)
(* with a positive maxBandwidth.                                            *)
(***************************************************************************)
C7_UnknownCapacity ==
    /\ \A p \in Sampled :
          /\ EffectiveCapacity(p) = 0 =>
                /\ SampleOf(p).maxBandwidth = 0
                /\ SampleOf(p).inUtilization = SampleOf(p).inBps
                /\ SampleOf(p).outUtilization = SampleOf(p).outBps
          /\ EffectiveCapacity(p) > 0 => SampleOf(p).maxBandwidth > 0
    /\ Published => \A p \in Sampled \cap PublishedIfaces :
          /\ EffectiveCapacity(p) = 0 =>
                /\ MetricsOf(p).maxBandwidth = 0
                /\ MetricsOf(p).inUtilization = MetricsOf(p).inBps
                /\ MetricsOf(p).outUtilization = MetricsOf(p).outBps
          /\ EffectiveCapacity(p) > 0 => MetricsOf(p).maxBandwidth > 0

\* the speed OID answered 0 and there is no static bandwidth: 72 bit/s is a utilization of 72
C7_Witness ==
    /\ Published
    /\ \E p \in Sampled \cap PublishedIfaces :
          /\ ProbedSpeed(p) = Some(0)
          /\ RawIfaceOf(p).max_bandwidth = 0
          /\ MetricsOf(p).maxBandwidth = 0
          /\ MetricsOf(p).inBps = Rat(72, 1)
          /\ MetricsOf(p).inUtilization = Rat(72, 1)
          /\ MetricsOf(p).error = ""


(***************************************************************************)
(* C8. Severities are ordered ok < warning < critical < error, and the      *)
(* status of every router of a published snapshot is the highest severity   *)
(* among the statuses of its interfaces in that snapshot, or error when the *)
(* router has no sample.                                                    *)
(***************************************************************************)
Severity(status) ==
    IF status = "ok" THEN 0 ELSE IF status = "warning" THEN 1
    ELSE IF status = "critical" THEN 2 ELSE 3

HighestSeverity(statuses) ==
    CHOOSE s \in statuses : \A t \in statuses : Severity(t) <= Severity(s)

PublishedStatuses(r) ==
    {Val(latestMetrics).routers[r].interfaces[n].status :
        n \in DOMAIN Val(latestMetrics).routers[r].interfaces}

C8_RouterStatusIsHighest ==
    /\ \A i, j \in 1..Len(STATUS_ORDER) :
          i < j <=> Severity(STATUS_ORDER[i]) < Severity(STATUS_ORDER[j])
    /\ ~IsNull(latestMetrics) =>
          \A r \in DOMAIN Val(latestMetrics).routers :
              Val(latestMetrics).routers[r].status =
                  IF Published /\ r \notin DOMAIN snapshot THEN "error"
                  ELSE HighestSeverity(PublishedStatuses(r))

(***************************************************************************)
(* C9. A published snapshot has an entry for every router of the topology   *)
(* it was resolved against and, under it, for every interface the topology  *)
(* declares; a router without a sample, or an interface missing from its    *)
(* router's sample, is published with status error, rates of zero,          *)
(* fresh = false and a no-data error string.                                *)
(***************************************************************************)
ResolvedTopology == Config(resolvedWith).topology

C9_EveryEntityPublished ==
    ~IsNull(latestMetrics) =>
        /\ DOMAIN Val(latestMetrics).routers = RouterIds(ResolvedTopology.routers)
        /\ \A r \in DOMAIN Val(latestMetrics).routers :
              DOMAIN Val(latestMetrics).routers[r].interfaces
                  = IfaceNames(RouterById(ResolvedTopology.routers, r).interfaces)
        /\ Published =>
              /\ \A r \in DOMAIN Val(latestMetrics).routers \ DOMAIN snapshot :
                    /\ Val(latestMetrics).routers[r].status = "error"
                    /\ Val(latestMetrics).routers[r].error = "No SNMP data"
              /\ \A p \in PublishedIfaces \ Sampled :
                    /\ MetricsOf(p).status = "error"
                    /\ MetricsOf(p).inBps = Zero
                    /\ MetricsOf(p).outBps = Zero
                    /\ ~MetricsOf(p).fresh
                    /\ MetricsOf(p).error =
                          IF p[1] \in DOMAIN snapshot THEN "Interface missing from SNMP poll"
                          ELSE "No SNMP data"

(* the configuration was replaced while the cycle was polling: router c has  *)
(* no sample and interface z is not in the sample of router a                *)
C9_Witness ==
    /\ Published
    /\ "a" \in DOMAIN snapshot
    /\ "c" \notin DOMAIN snapshot
    /\ <<"a", "z">> \in PublishedIfaces \ Sampled
    /\ <<"c", "w">> \in PublishedIfaces
    /\ MetricsOf(<<"a", "z">>).error = "Interface missing from SNMP poll"
    /\ MetricsOf(<<"c", "w">>).error = "No SNMP data"
    /\ MetricsOf(<<"c", "w">>).status = "error"

(***************************************************************************)
(* C10. A link's forward metrics are those of (from, ifaceFrom) and its     *)
(* reverse metrics those of (to, ifaceTo) in the routers of the same        *)
(* payload; the utilization of a side is the larger of its in and out       *)
(* utilization; aggregateUtilization is the larger of the two sides, an     *)
(* absent side counting 0, and null only when both sides are absent.        *)
(***************************************************************************)
PublishedSide(id, name) ==
    IF id \in DOMAIN Val(latestMetrics).routers
          /\ name \in DOMAIN Val(latestMetrics).routers[id].interfaces
    THEN Some(Val(latestMetrics).routers[id].interfaces[name])
    ELSE Null

SideUtilization(side) ==
    IF IsNull(side) THEN Zero
    ELSE LargerOf(Val(side).inUtilization, Val(side).outUtilization)

C10_LinkMetrics ==
    ~IsNull(latestMetrics) =>
        /\ Len(Val(latestMetrics).links) = Len(ResolvedTopology.links)
        /\ \A l \in 1..Len(ResolvedTopology.links) :
              LET link == ResolvedTopology.links[l]
                  metrics == Val(latestMetrics).links[l]
                  forward == PublishedSide(link.from, link.ifaceFrom)
                  reverse == PublishedSide(link.to, link.ifaceTo)
              IN  /\ metrics.id = link.id
                  /\ metrics.forward = forward
                  /\ metrics.reverse = reverse
                  /\ metrics.aggregateUtilization =
                        IF IsNull(forward) /\ IsNull(reverse) THEN Null
                        ELSE Some(LargerOf(SideUtilization(forward), SideUtilization(reverse)))

\* link l3 from a.x at 0.75 to a.y, whose in is 0 and whose out is 0.90: aggregate 0.90
C10_Witness ==
    /\ ~IsNull(latestMetrics)
    /\ \E l \in 1..Len(Val(latestMetrics).links) :
          LET metrics == Val(latestMetrics).links[l]
          IN  /\ metrics.id = "l3"
              /\ Val(metrics.forward).inUtilization = Rat(3, 4)
              /\ Val(metrics.reverse).inUtilization = Zero
              /\ Val(metrics.reverse).outUtilization = Rat(9, 10)
              /\ metrics.aggregateUtilization = Some(Rat(9, 10))

(***************************************************************************)
(* C11. The routers of a cycle are sampled concurrently and resolve in any *)
(* order, but the snapshot becomes visible only once every router of the   *)
(* cycle has resolved and been merged: whenever latestMetrics holds the    *)
(* payload of the running cycle, no pollRouter call of that cycle is       *)
(* pending, the snapshot holds a sample for each router handed to          *)
(* pollRouters, and the payload is that whole snapshot resolved.           *)
(***************************************************************************)
\* the routers whose samples the cycle's Promise.all waits for
CycleRouters == RouterIds(Config(cycleCfg).routerPollConfig)

\* latestMetrics is the payload of the cycle started last
CyclePayloadVisible ==
    ~IsNull(latestMetrics) /\ Val(latestMetrics).timestamp = cycles /\ pc # "failed"

C11_NoPartialSnapshot ==
    CyclePayloadVisible =>
        /\ pending = {}
        /\ DOMAIN snapshot = CycleRouters
        /\ Val(latestMetrics).routers = toRouterMetrics(snapshot, ResolvedTopology)

\* the second cycle's payload is visible, with the samples of both routers
C11_Witness ==
    /\ CyclePayloadVisible
    /\ cycles = 2
    /\ DOMAIN snapshot = {"p", "q"}
    /\ Val(latestMetrics).routers["p"].interfaces["i"].fresh
    /\ ~Val(latestMetrics).routers["q"].interfaces["j"].fresh

(***************************************************************************)
(* C12. The poll loop never stops for good: a cycle that published its     *)
(* snapshot (whether or not its image was written) and a cycle that threw  *)
(* both leave exactly one call of pollLoop scheduled, none is scheduled    *)
(* while a cycle runs, and so each cycle is followed by the next one (up   *)
(* to the MaxCycles cycles the model runs).                                *)
(***************************************************************************)
\* pollLoop is between two cycles
CycleOver == pc \in {"start", "scheduled", "failed"}

OneNextCycleScheduled == timers = (IF CycleOver THEN 1 ELSE 0)

C12_LoopNeverStops ==
    /\ []OneNextCycleScheduled
    /\ \A k \in 0..(MaxCycles - 1) : (cycles = k) ~> (cycles = k + 1)

\* the first cycle threw in sampling and the second one is running
C12_Witness ==
    /\ cycles = 2
    /\ pc = "polling"
    /\ lastBuilt = 0
    /\ timers = 0

(***************************************************************************)
(* C13. What consumers are served is nothing before the first cycle that   *)
(* built its payload (GET /api/metrics answers 204, a new WebSocket        *)
(* connection gets the topology message only) and afterwards the payload   *)
(* of the last cycle that built one; a cycle that throws in sampling       *)
(* leaves latestMetrics as it was.                                         *)
(***************************************************************************)
\* the snapshot to serve: none, or the payload of cycle lastBuilt
ServedIsLastBuilt ==
    /\ lastBuilt = 0 <=> IsNull(latestMetrics)
    /\ lastBuilt > 0 => Val(latestMetrics).timestamp = lastBuilt
    /\ client.open => client.metrics = latestMetrics

\* a request, a new connection, a cycle that throws
ServesLastBuilt ==
    /\ http' # http =>
          http' = IF lastBuilt = 0 THEN [status |-> 204, body |-> Null]
                  ELSE [status |-> 200, body |-> latestMetrics]
    /\ ~client.open /\ client'.open =>
          /\ client'.topology = runtime
          /\ client'.metrics = IF lastBuilt = 0 THEN Null ELSE latestMetrics
    /\ pc' = "failed" /\ cycles' # cycles =>
          /\ latestMetrics' = latestMetrics
          /\ lastBuilt' = lastBuilt

C13_ServedSnapshot == []ServedIsLastBuilt /\ [][ServesLastBuilt]_vars

\* the second cycle threw and the first cycle's payload is what both consumers have
C13_Witness ==
    /\ pc = "failed"
    /\ cycles = 2
    /\ lastBuilt = 1
    /\ http.status = 200
    /\ http.body = latestMetrics
    /\ client.open
    /\ Val(client.metrics).timestamp = 1

(***************************************************************************)
(* C14. A configuration replacement is applied wholesale: a published      *)
(* snapshot and its image belong to one configuration, that is, the router *)
(* poll configuration the cycle sampled with, the topology the payload was *)
(* resolved against and the topology handed to the renderer come from the  *)
(* same configuration file, also when the file is replaced during the      *)
(* cycle.                                                                  *)
(***************************************************************************)
C14_OneConfigurationPerSnapshot ==
    Published => cycleCfg = resolvedWith /\ resolvedWith = renderedWith

(***************************************************************************)
(* C15. Poll cycles never overlap: a cycle starts only after the previous  *)
(* one has finished, its writes to the counter cache included, so every    *)
(* pollRouter call that is still running (and will read and write the      *)
(* cache) belongs to the cycle started last.                               *)
(***************************************************************************)
C15_CyclesNeverOverlap ==
    \A call \in inflight : call.cycle = cycles

(***************************************************************************)
(* C16. Given the same topology, metrics payload and link paths, the page  *)
(* (draw, drawLink) and renderMapSnapshot decide the same for every link   *)
(* and router: the same path and halves, the same forward and reverse      *)
(* colours, the same link capacity and so the same stroke width, and the   *)
(* same router colour.                                                     *)
(***************************************************************************)
\* the page has drawn the scene's topology with the scene's metrics
PageShowsScene ==
    /\ page.topology = Some(scene.topology)
    /\ page.metrics = Some(scene.metrics)
    /\ ~IsNull(page.canvas)

C16_RenderersAgree ==
    PageShowsScene /\ ~IsNull(image) =>
        /\ page.linkPathMap = computeLinkPaths(scene.topology)
        /\ page.linkCapacityMap =
              computeLinkCapacities(scene.topology.routers, scene.topology.links).map
        /\ Val(page.canvas) = Val(image)

(***************************************************************************)
(* C17. A link's capacity is the minimum of its candidate capacities that  *)
(* are numbers above 0, the capacities of its two endpoint interfaces, and *)
(* null when no candidate is a positive number; the observed capacity      *)
(* range is the minimum and the maximum over all non-null link capacities, *)
(* or null when there is none. The offline renderer takes the candidates   *)
(* from the topology; the page takes them from the metrics it holds, and   *)
(* from the topology when no metric capacity is positive.                  *)
(***************************************************************************)
\* the numbers above 0 in a set of optional numbers
PositiveOf(values) == {Val(v) : v \in {w \in values : ~IsNull(w) /\ Val(w) > 0}}

\* the least number of a set, null for the empty set
LeastOf(numbers) ==
    IF numbers = {} THEN Null ELSE Some(CHOOSE m \in numbers : \A n \in numbers : m <= n)

\* the two endpoints of a link: <<router id, interface name>>
EndpointsOf(link) == {<<link.from, link.ifaceFrom>>, <<link.to, link.ifaceTo>>}

\* the capacities the topology gives the endpoint interfaces of a link
EndpointDefinitions(topology, link) ==
    {topology.routers[e[1]].interfaces[e[2]].maxBandwidth :
        e \in {f \in (1..Len(topology.routers)) \X (1..2) :
                  <<topology.routers[f[1]].id, topology.routers[f[1]].interfaces[f[2]].name>>
                      \in EndpointsOf(link)}}

\* the capacities a metrics payload gives the endpoint interfaces of a link
EndpointMetrics(metrics, link) ==
    IF IsNull(metrics) THEN {}
    ELSE {Some(Val(metrics).routers[e[1]].interfaces[e[2]].maxBandwidth) :
             e \in {f \in EndpointsOf(link) :
                       /\ f[1] \in DOMAIN Val(metrics).routers
                       /\ f[2] \in DOMAIN Val(metrics).routers[f[1]].interfaces}}

\* the minimum and the maximum over the non-null capacities of a map, or null
ObservedRange(map) ==
    LET known == {Val(map[id]) : id \in {d \in DOMAIN map : ~IsNull(map[d])}}
    IN  IF known = {} THEN Null
        ELSE Some([min |-> Val(LeastOf(known)),
                   max |-> CHOOSE m \in known : \A n \in known : n <= m])

OfflineCapacitiesAreMinima ==
    LET topology == scene.topology
        computed == computeLinkCapacities(topology.routers, topology.links)
    IN  /\ \A l \in 1..Len(topology.links) :
              computed.map[topology.links[l].id] =
                  LeastOf(PositiveOf(EndpointDefinitions(topology, topology.links[l])))
        /\ RangeOf(computed.capacities) = ObservedRange(computed.map)

PageCapacitiesAreMinima ==
    LET topology == Val(page.topology)
    IN  /\ \A l \in 1..Len(topology.links) :
              LET link == topology.links[l]
                  metric == PositiveOf(EndpointMetrics(page.metrics, link))
                  candidates == IF metric = {}
                                THEN PositiveOf(EndpointDefinitions(topology, link))
                                ELSE metric
              IN  page.linkCapacityMap[link.id] = LeastOf(candidates)
        /\ page.capacityRange = ObservedRange(page.linkCapacityMap)

C17_LinkCapacityIsMinimum ==
    /\ ~IsNull(image) => OfflineCapacitiesAreMinima
    /\ ~IsNull(page.topology) => PageCapacitiesAreMinima

(* the page and the offline renderer have drawn a scene where a link has two *)
(* different positive candidates and the range has two different ends        *)
C17_Witness ==
    /\ ~IsNull(image)
    /\ PageShowsScene
    /\ \E l \in 1..Len(scene.topology.links) :
          Cardinality(PositiveOf(EndpointDefinitions(scene.topology, scene.topology.links[l]))) = 2
    /\ \E id \in DOMAIN page.linkCapacityMap :
          /\ ~IsNull(page.linkCapacityMap[id])
          /\ Val(page.capacityRange).min < Val(page.linkCapacityMap[id])

(***************************************************************************)
(* C18. computeAutoPath(from, to, groupSize, index) uses                   *)
(* offset = (index - (groupSize - 1) / 2) * spacing with                   *)
(* spacing = clamp(distance(from, to) / 3, 40, 160); it returns exactly    *)
(* the 2-point path [from, to] when groupSize = 1 or |offset| < 1, and     *)
(* otherwise the 3-point path [from, control, to] with                     *)
(* control = midpoint + unit perpendicular * offset. For groupSize = 3 the *)
(* offsets of index 0, 1, 2 are -spacing, 0, +spacing, so index 1 is       *)
(* straight and the other two are curves.                                  *)
(***************************************************************************)
\* the distance between two points
Distance(p, q) == Hypot(RatSub(q.x, p.x), RatSub(q.y, p.y))

\* clamp(value, lo, hi)
Clamp(value, lo, hi) == IF RatLt(value, lo) THEN lo ELSE IF RatLt(hi, value) THEN hi ELSE value

SpacingOf(call) == Clamp(RatDiv(Distance(call.from, call.to), Num(3)), Num(40), Num(160))

OffsetOf(call) ==
    RatMul(RatSub(Num(call.index), Rat(call.groupSize - 1, 2)), SpacingOf(call))

MidpointOf(call) ==
    [x |-> RatDiv(RatAdd(call.from.x, call.to.x), Num(2)),
     y |-> RatDiv(RatAdd(call.from.y, call.to.y), Num(2))]

(* point = midpoint + u * offset for u the perpendicular (-dy, dx) of the    *)
(* line from `from` to `to`, scaled to the length 1                           *)
DisplacedBy(call, point, offset) ==
    LET dx == RatSub(call.to.x, call.from.x)
        dy == RatSub(call.to.y, call.from.y)
        distance == Distance(call.from, call.to)
        px == RatSub(point.x, MidpointOf(call).x)
        py == RatSub(point.y, MidpointOf(call).y)
    IN  /\ RatMul(px, distance) = RatMul(RatSub(Zero, dy), offset)
        /\ RatMul(py, distance) = RatMul(dx, offset)
        /\ RatAdd(RatMul(px, px), RatMul(py, py)) = RatMul(offset, offset)

\* the shape of the result, with `displaced` saying where the control point is
AutoPathShape(call, displaced) ==
    LET result == Val(call.result)
        offset == OffsetOf(call)
    IN  /\ IF call.groupSize = 1 \/ RatLt(RatAbs(offset), Num(1))
           THEN result = <<call.from, call.to>>
           ELSE /\ Len(result) = 3
                /\ result[1] = call.from
                /\ result[3] = call.to
                /\ displaced
        /\ call.groupSize = 3 =>
              /\ offset = RatMul(Num(call.index - 1), SpacingOf(call))
              /\ Len(result) = (IF call.index = 1 THEN 2 ELSE 3)

\* the claim as stated: the control point is always a unit perpendicular away
C18_AutoPathAsStated ==
    ~IsNull(autoPathCall.result) =>
        AutoPathShape(autoPathCall,
                      DisplacedBy(autoPathCall, Val(autoPathCall.result)[2],
                                  OffsetOf(autoPathCall)))

(* C18 as amended: the same, where for from = to, which has no               *)
(* perpendicular, the control point is the midpoint itself                   *)
C18_AutoPath ==
    ~IsNull(autoPathCall.result) =>
        AutoPathShape(autoPathCall,
                      IF autoPathCall.from = autoPathCall.to
                      THEN Val(autoPathCall.result)[2] = MidpointOf(autoPathCall)
                      ELSE DisplacedBy(autoPathCall, Val(autoPathCall.result)[2],
                                       OffsetOf(autoPathCall)))

(* the last of a group of three between routers 300 apart has been given its *)
(* curve: the spacing is 100, inside the clamp                               *)
C18_Witness ==
    /\ ~IsNull(autoPathCall.result)
    /\ autoPathCall.groupSize = 3
    /\ autoPathCall.index = 2
    /\ SpacingOf(autoPathCall) = Num(100)
    /\ Len(Val(autoPathCall.result)) = 3

(***************************************************************************)
(* C19. Links sharing the same unordered endpoint pair are grouped and     *)
(* ordered by link id, and fan out so that each renders as a distinct      *)
(* curve: two links with ids "a1" and "b2" between A and B get offsets of  *)
(* equal magnitude and opposite sign in id order and their control points  *)
(* lie on opposite sides of the straight line A-B, whichever direction (A  *)
(* to B or B to A) each link is declared in.                               *)
(***************************************************************************)
\* the topology has the routers A and B apart, joined by a1 and b2 alone, without waypoints
TwoLinksBetween(topology) ==
    /\ Len(topology.routers) = 2
    /\ topology.routers[1].position # topology.routers[2].position
    /\ {topology.links[l].id : l \in 1..Len(topology.links)} = {"a1", "b2"}
    /\ Len(topology.links) = 2
    /\ \A l \in 1..2 :
          /\ Len(topology.links[l].path) = 0
          /\ {topology.links[l].from, topology.links[l].to} = {"A", "B"}

(* which side of the line from a to b the point c is on: the sign of the     *)
(* cross product (b - a) x (c - a)                                           *)
SideOf(a, b, c) ==
    LET cross == RatSub(RatMul(RatSub(b.x, a.x), RatSub(c.y, a.y)),
                        RatMul(RatSub(b.y, a.y), RatSub(c.x, a.x)))
    IN  IF cross.n > 0 THEN 1 ELSE IF cross.n < 0 THEN -1 ELSE 0

(* the paths of a1 and b2 are curves whose control points are mirror images  *)
(* in the midpoint of A-B, on opposite sides of the line                     *)
FanOut(topology, paths) ==
    LET posA == topology.routers[1].position
        posB == topology.routers[2].position
    IN  /\ {"a1", "b2"} \subseteq DOMAIN paths
        /\ Len(paths["a1"]) = 3
        /\ Len(paths["b2"]) = 3
        /\ RatAdd(paths["a1"][2].x, paths["b2"][2].x) = RatAdd(posA.x, posB.x)
        /\ RatAdd(paths["a1"][2].y, paths["b2"][2].y) = RatAdd(posA.y, posB.y)
        /\ SideOf(posA, posB, paths["a1"][2]) # 0
        /\ SideOf(posA, posB, paths["a1"][2]) = -SideOf(posA, posB, paths["b2"][2])

C19_FanOut ==
    /\ ~IsNull(page.topology) /\ TwoLinksBetween(Val(page.topology)) =>
          FanOut(Val(page.topology), page.linkPathMap)
    /\ ~IsNull(image) /\ TwoLinksBetween(scene.topology) =>
          FanOut(scene.topology, computeLinkPaths(scene.topology))

(***************************************************************************)
(* C20. A link with a non-empty manual waypoint list bypasses fan-out      *)
(* entirely: its path is exactly [position of from target, the waypoints   *)
(* in order, position of to target], whatever the size of its group and    *)
(* its index in it.                                                        *)
(***************************************************************************)
\* the position of the router of that id
PositionOf(topology, id) ==
    topology.routers[CHOOSE r \in 1..Len(topology.routers) : topology.routers[r].id = id].position

\* every link with waypoints has the path from router to router through them
ManualPathsVerbatim(topology, paths) ==
    \A l \in 1..Len(topology.links) :
        LET link == topology.links[l]
        IN  Len(link.path) > 0 =>
               /\ link.id \in DOMAIN paths
               /\ paths[link.id] = <<PositionOf(topology, link.from)>> \o link.path
                                       \o <<PositionOf(topology, link.to)>>

C20_ManualPathBypassesFanOut ==
    /\ ~IsNull(page.topology) => ManualPathsVerbatim(Val(page.topology), page.linkPathMap)
    /\ ~IsNull(image) => ManualPathsVerbatim(scene.topology, computeLinkPaths(scene.topology))

(* both renderers have drawn a scene where the second link of a group of     *)
(* three has a waypoint: its path has three points                           *)
C20_Witness ==
    /\ ~IsNull(image)
    /\ PageShowsScene
    /\ \E l \in 1..Len(scene.topology.links) :
          /\ Len(scene.topology.links[l].path) > 0
          /\ Cardinality(GroupOf(scene.topology.links, GroupKey(scene.topology.links[l]))) = 3
          /\ IndexInGroup(scene.topology.links, l) = 1
          /\ Len(page.linkPathMap[scene.topology.links[l].id]) = 3

(***************************************************************************)
(* C21. For every polyline of at least 2 points with total length L > 0,   *)
(* splitPathAtHalf returns a midpoint lying on the polyline at arc length  *)
(* exactly L/2 from the start; firstHalf starts at the first point and     *)
(* ends with the midpoint, secondHalf starts with the midpoint and ends at *)
(* the last point, both halves have arc length L/2, and firstHalf followed *)
(* by secondHalf (minus the duplicated midpoint) visits every original     *)
(* vertex in the original order. For a straight 2-point path this gives    *)
(* firstHalf = [start, mid] and secondHalf = [mid, end].                   *)
(***************************************************************************)
\* the arc length of a polyline
RECURSIVE ArcLength(_)
ArcLength(path) ==
    IF Len(path) < 2 THEN Zero
    ELSE RatAdd(Distance(path[1], path[2]), ArcLength(Tail(path)))

\* splitPathAtHalf has returned for a polyline of positive length
SplitOfPolyline ==
    /\ helperCall.function = "splitPathAtHalf"
    /\ ~IsNull(helperCall.result)
    /\ Len(helperCall.path) >= 2
    /\ ArcLength(helperCall.path) # Zero

\* point lies on the segment from a to b
OnSegment(point, a, b) == RatAdd(Distance(a, point), Distance(point, b)) = Distance(a, b)

C21_SplitAtHalfLength ==
    SplitOfPolyline =>
        LET path == helperCall.path
            split == Val(helperCall.result)
            first == split.firstHalf
            second == split.secondHalf
            half == RatDiv(ArcLength(path), Num(2))
        IN  /\ Len(first) >= 2
            /\ Len(second) >= 2
            /\ first[1] = path[1]
            /\ first[Len(first)] = split.midpoint
            /\ second[1] = split.midpoint
            /\ second[Len(second)] = path[Len(path)]
            /\ ArcLength(first) = half
            /\ ArcLength(second) = half
            /\ SubSeq(first, 1, Len(first) - 1) \o Tail(second) = path
            /\ OnSegment(split.midpoint, first[Len(first) - 1], second[2])
            /\ Len(path) = 2 =>
                  /\ first = <<path[1], split.midpoint>>
                  /\ second = <<split.midpoint, path[2]>>

(* a polyline of three or more points has been split at a point that is none *)
(* of its vertices, beyond its first segment                                 *)
C21_Witness ==
    /\ SplitOfPolyline
    /\ Len(helperCall.path) >= 3
    /\ Len(Val(helperCall.result).firstHalf) >= 3
    /\ \A i \in 1..Len(helperCall.path) : helperCall.path[i] # Val(helperCall.result).midpoint

(***************************************************************************)
(* C22. splitPathAtHalf on a degenerate path where all points coincide     *)
(* (any number of points) returns that point as the midpoint and both      *)
(* halves as single-point paths; a path of 0 or 1 point likewise returns a *)
(* single point as the midpoint and as both halves, and no degenerate      *)
(* input raises an error.                                                  *)
(***************************************************************************)
\* splitPathAtHalf has returned for a path of no length
SplitOfDegenerate ==
    /\ helperCall.function = "splitPathAtHalf"
    /\ ~IsNull(helperCall.result)
    /\ ArcLength(helperCall.path) = Zero

\* the point of a degenerate path: the origin for the empty path
PointOfDegenerate(path) == IF Len(path) = 0 THEN Point(0, 0) ELSE path[1]

\* the claim as stated: both halves are single-point paths
C22_DegenerateSplitAsStated ==
    SplitOfDegenerate =>
        LET split == Val(helperCall.result)
            point == PointOfDegenerate(helperCall.path)
        IN  /\ split.midpoint = point
            /\ split.firstHalf = <<point>>
            /\ split.secondHalf = <<point>>

(* C22 as amended: a path of 0 or 1 point gives single-point halves; a path  *)
(* of 2 or more coinciding points gives the halves [first point, midpoint]   *)
(* and [midpoint, last point], two points each                               *)
C22_DegenerateSplit ==
    SplitOfDegenerate =>
        LET split == Val(helperCall.result)
            point == PointOfDegenerate(helperCall.path)
        IN  /\ split.midpoint = point
            /\ split.firstHalf = (IF Len(helperCall.path) < 2 THEN <<point>>
                                  ELSE <<point, point>>)
            /\ split.secondHalf = split.firstHalf

\* a path of three coinciding points has been split
C22_Witness ==
    /\ SplitOfDegenerate
    /\ Len(helperCall.path) = 3

(***************************************************************************)
(* C23. utilToColor maps every utilization in [0, 0.99) to the color of    *)
(* the unique bucket [min, max) containing it among the 8 contiguous       *)
(* buckets with boundaries 0, 0.01, 0.2, 0.4, 0.6, 0.8, 0.9, 0.99, 1.01;   *)
(* every utilization >= 0.99 (including values above 1.01) maps to the     *)
(* last bucket's color; null, NaN and out-of-range inputs map to the       *)
(* neutral unknown color; and both backends implement the same mapping.    *)
(***************************************************************************)
\* the boundaries of the buckets, in hundredths
BucketBoundaries == <<0, 1, 20, 40, 60, 80, 90, 99, 101>>

BucketColors ==
    <<"#0ea5e9", "#22c55e", "#84cc16", "#facc15", "#f97316", "#ea580c", "#ef4444", "#991b1b">>

UnknownColor == "#5a646d"

\* utilization is a number from lo hundredths on and below hi hundredths
WithinHundredths(utilization, lo, hi) ==
    /\ RatGeq(utilization, Rat(lo, 100))
    /\ RatLt(utilization, Rat(hi, 100))

C23_UtilizationColor ==
    helperCall.function = "utilToColor" /\ ~IsNull(helperCall.result) =>
        LET color == Val(helperCall.result)
            input == helperCall.utilization
        IN  IF IsNull(input) \/ Val(input) = NaN \/ Val(input).n < 0
            THEN color = UnknownColor
            ELSE IF RatGeq(Val(input), Rat(99, 100))
            THEN color = BucketColors[8]
            ELSE /\ \E i \in 1..7 :
                       /\ WithinHundredths(Val(input), BucketBoundaries[i],
                                           BucketBoundaries[i + 1])
                       /\ color = BucketColors[i]
                 /\ Cardinality({i \in 1..8 :
                                   WithinHundredths(Val(input), BucketBoundaries[i],
                                                    BucketBoundaries[i + 1])}) = 1

(***************************************************************************)
(* C24. capacityToWidth always returns a width in [2, 14]; it returns 2    *)
(* when capacity is missing or non-positive, when the range is missing, or *)
(* when the range minimum is non-positive; it returns the midpoint width 8 *)
(* when the range has collapsed to one value; otherwise                    *)
(* capacityToWidth(range.min) = 2, capacityToWidth(range.max) = 14, and    *)
(* the width is monotonically non-decreasing in capacity.                  *)
(***************************************************************************)
\* capacityToWidth has returned for the two capacities of helperCall
WidthsComputed == helperCall.function = "capacityToWidth" /\ ~IsNull(helperCall.result)

\* what the claim says of the width given one capacity under a range
WidthAsClaimed(capacity, range, width) ==
    /\ RatGeq(width, Num(2))
    /\ RatGeq(Num(14), width)
    /\ IF IsNull(capacity) \/ Val(capacity) <= 0 \/ IsNull(range) \/ Val(range).min <= 0
       THEN width = Num(2)
       ELSE IF Val(range).min = Val(range).max
       THEN width = Num(8)
       ELSE /\ Val(capacity) = Val(range).min => width = Num(2)
            /\ Val(capacity) = Val(range).max => width = Num(14)

C24_CapacityWidth ==
    WidthsComputed =>
        LET widths == Val(helperCall.result)
        IN  /\ WidthAsClaimed(helperCall.capacity, helperCall.range, widths.width)
            /\ WidthAsClaimed(helperCall.larger, helperCall.range, widths.widthLarger)
            /\ ~IsNull(helperCall.capacity) /\ ~IsNull(helperCall.larger)
                  /\ Val(helperCall.capacity) <= Val(helperCall.larger)
                  => RatGeq(widths.widthLarger, widths.width)

(* two capacities inside a range of two ends have been given two different   *)
(* widths between the least and the largest                                  *)
C24_Witness ==
    /\ WidthsComputed
    /\ ~IsNull(helperCall.range)
    /\ ~IsNull(helperCall.capacity)
    /\ Val(helperCall.range).min < Val(helperCall.capacity)
    /\ RatLt(Num(2), Val(helperCall.result).width)
    /\ RatLt(Val(helperCall.result).width, Val(helperCall.result).widthLarger)
    /\ RatLt(Val(helperCall.result).widthLarger, Num(14))

(***************************************************************************)
(* C25. A counter wrap or reset costs exactly one cycle: in the cycle      *)
(* where current < previous the interface reports rate 0 and fresh=false   *)
(* but its cache entry is overwritten with the new lower counters, so in   *)
(* the next cycle in which both counters are read and have not decreased   *)
(* again (elapsed > 0) the rate is computed against the post-wrap reading  *)
(* and fresh=true.                                                         *)
(***************************************************************************)
\* the counter of that direction was read below the cached one
WentDown(p, direction) ==
    /\ ~IsNull(PreviousOf(p))
    /\ ~IsNull(OctetsOf(SampleOf(p), direction))
    /\ Val(OctetsOf(SampleOf(p), direction)) < CachedOf(p, direction)

BothRead(ifaceSample) == ~IsNull(ifaceSample.inOctets) /\ ~IsNull(ifaceSample.outOctets)

\* the cache entry of p holds the counters of this cycle's sample and this cycle's time
CacheHoldsSample(p) ==
    /\ BothRead(SampleOf(p))
    /\ cacheKey(p[1], p[2]) \in DOMAIN sampleCache
    /\ sampleCache[cacheKey(p[1], p[2])] =
          [inOctets |-> Val(SampleOf(p).inOctets),
           outOctets |-> Val(SampleOf(p).outOctets),
           timestamp |-> now]

\* the cycle of a wrap: no rate for that direction, not fresh
NoRateThisCycle(p, direction) ==
    /\ BpsOf(SampleOf(p), direction) = Zero
    /\ ~SampleOf(p).fresh

WrapCycle ==
    \A p \in Sampled : \A direction \in {"in", "out"} :
        WentDown(p, direction) /\ BothRead(SampleOf(p)) =>
            NoRateThisCycle(p, direction) /\ CacheHoldsSample(p)

(* the cycle after such a wrap: when both counters are read again, neither   *)
(* below the reading of the wrap cycle, and time has passed, the rates are   *)
(* those against the reading of the wrap cycle and the sample is fresh       *)
CycleAfterWrap ==
    \A p \in Sampled :
        LET before == SampleOf(p)
            after == snapshot'[p[1]].interfaces[p[2]]
            seconds == Rat(now' - now, 1000)
        IN  /\ cycles' = cycles + 1
            /\ \E direction \in {"in", "out"} : WentDown(p, direction)
            /\ BothRead(before)
            /\ BothRead(after)
            /\ Val(after.inOctets) >= Val(before.inOctets)
            /\ Val(after.outOctets) >= Val(before.outOctets)
            /\ now' > now
            => /\ after.fresh
               /\ after.inBps = RatDiv(Num(8 * (Val(after.inOctets) - Val(before.inOctets))),
                                       seconds)
               /\ after.outBps = RatDiv(Num(8 * (Val(after.outOctets) - Val(before.outOctets))),
                                        seconds)

PolledInStep ==
    UNION {{<<id, name>> : name \in DOMAIN snapshot'[id].interfaces} :
             id \in pending \ pending'}

\* those of them whose two counters were read, by cache key
WritersOf(key) ==
    {p \in PolledInStep : /\ cacheKey(p[1], p[2]) = key
                          /\ BothRead(snapshot'[p[1]].interfaces[p[2]])}

ReadingOf(p) ==
    [inOctets |-> Val(snapshot'[p[1]].interfaces[p[2]].inOctets),
     outOctets |-> Val(snapshot'[p[1]].interfaces[p[2]].outOctets),
     timestamp |-> now']

CacheFrame ==
    /\ \A p \in PolledInStep :
          BothRead(snapshot'[p[1]].interfaces[p[2]]) =>
              cacheKey(p[1], p[2]) \in DOMAIN sampleCache'
    /\ \A key \in DOMAIN sampleCache \cup DOMAIN sampleCache' :
          IF WritersOf(key) = {}
          THEN /\ key \in DOMAIN sampleCache
               /\ key \in DOMAIN sampleCache'
               /\ sampleCache'[key] = sampleCache[key]
          ELSE /\ key \in DOMAIN sampleCache'
               /\ \E p \in WritersOf(key) : sampleCache'[key] = ReadingOf(p)

C26_CacheFrame == [][CacheFrame]_vars

(* the second cycle under the replaced configuration: the entry of a:x is   *)
(* overwritten, the entry of a:y, an interface the configuration no longer  *)
(* has, is still the first cycle's, and b:m and a:z never got one           *)
C26_Witness ==
    /\ runtime = 2
    /\ cycleCfg = 2
    /\ cycles = 2
    /\ DOMAIN sampleCache = {"a:x", "a:y"}
    /\ sampleCache["a:x"].timestamp = 1000
    /\ sampleCache["a:y"].timestamp = 0

(***************************************************************************)
(* C28. The counter cache is keyed by the pair (target id, interface       *)
(* name): two distinct (target id, interface name) pairs never share a     *)
(* cache entry, so the counters written for one interface are never used   *)
(* as the previous reading of another interface, for any target ids and    *)
(* interface names (including names that contain ':'). In the first cycle  *)
(* no interface has been read before, so a previous reading that an        *)
(* interface finds there was written for another interface.                *)
(***************************************************************************)
C28_CacheKeyedByPair ==
    cycles = 1 => \A p \in Sampled : IsNull(PreviousOf(p))

(***************************************************************************)
(* C30. An interface's published fresh flag is true if and only if both    *)
(* its in rate and its out rate of that cycle were computed from a valid,  *)
(* non-wrapped delta against the cached previous reading with elapsed > 0; *)
(* whenever fresh is false because of a missing previous entry or          *)
(* non-positive elapsed time, both published rates are 0.                  *)
(***************************************************************************)
\* the rate of that direction has a delta to be computed from
ValidDelta(p, direction) ==
    /\ ~IsNull(PreviousOf(p))
    /\ ElapsedOf(p) > 0
    /\ ~IsNull(OctetsOf(SampleOf(p), direction))
    /\ Val(OctetsOf(SampleOf(p), direction)) >= CachedOf(p, direction)

\* the rate of that direction is the one of the delta over the elapsed seconds
RateOfDelta(p, direction) ==
    BpsOf(MetricsOf(p), direction) =
        RatDiv(Num(8 * (Val(OctetsOf(SampleOf(p), direction)) - CachedOf(p, direction))),
               Rat(ElapsedOf(p), 1000))

C30_PublishedFresh ==
    Published =>
        \A p \in PublishedIfaces :
            IF p \in Sampled
            THEN /\ MetricsOf(p).fresh <=> ValidDelta(p, "in") /\ ValidDelta(p, "out")
                 /\ MetricsOf(p).fresh => RateOfDelta(p, "in") /\ RateOfDelta(p, "out")
                 /\ IsNull(PreviousOf(p)) \/ ElapsedOf(p) <= 0 =>
                        /\ ~MetricsOf(p).fresh
                        /\ MetricsOf(p).inBps = Zero
                        /\ MetricsOf(p).outBps = Zero
            ELSE ~MetricsOf(p).fresh

(* a published interface that is fresh with a rate above 0, in a behaviour   *)
(* whose first payload, lacking a previous entry, was not                    *)
C30_Witness ==
    /\ Published
    /\ cycles = 2
    /\ \E p \in PublishedIfaces \cap Sampled :
          /\ MetricsOf(p).fresh
          /\ MetricsOf(p).inBps = Num(72)
          /\ ElapsedOf(p) = 1000

(***************************************************************************)
(* C27. In the interactive view, after any sequence of topology messages,  *)
(* metrics messages, layout-mode toggles, pointer-drag moves and resizes,  *)
(* every redraw uses link paths equal to the paths recomputed from the     *)
(* current router positions and waypoints: each position mutation by a     *)
(* drag is followed by a path rebuild before the next draw, and no draw    *)
(* ever uses a control point computed from an earlier position.            *)
(***************************************************************************)
\* what draw() draws with the paths recomputed from the page's topology
DrawnAfresh == draw(rebuildLinkPaths(page)).canvas

C27_DrawsUseCurrentPaths ==
    ~IsNull(page.topology) =>
        /\ page.linkPathMap = computeLinkPaths(Val(page.topology))
        /\ page.canvas = DrawnAfresh

(* A has been dragged from (0, 0) to (30, 30): the two links are drawn with  *)
(* the control point of that position, (10, 15)                              *)
C27_Witness ==
    /\ ~IsNull(page.topology)
    /\ page.pointerState.dragging
    /\ Val(page.topology).routers[1].position = Point(30, 30)
    /\ DOMAIN page.linkPathMap = {"a1", "b2"}
    /\ page.linkPathMap["a1"] = <<Point(30, 30), Point(10, 15), Point(30, 0)>>
    /\ page.linkPathMap["b2"] = <<Point(30, 0), Point(10, 15), Point(30, 30)>>
    /\ page.canvas = DrawnAfresh

(***************************************************************************)
(* C29. In the interactive view the drag state is consistent in every      *)
(* reachable state: dragging = true implies layout mode is on and          *)
(* routerId, pointerId and offset are all non-null; leaving layout mode    *)
(* (button or Escape) or releasing/cancelling the captured pointer resets  *)
(* all four fields; and a router position is mutated only by a pointer     *)
(* move of the captured pointer while dragging in layout mode.             *)
(***************************************************************************)
DragStateConsistent ==
    IF page.pointerState.dragging
    THEN /\ page.layoutMode
         /\ ~IsNull(page.pointerState.routerId)
         /\ ~IsNull(page.pointerState.pointerId)
         /\ ~IsNull(page.pointerState.offset)
    ELSE page.pointerState = IdlePointer

\* layout mode is left, by either button or by Escape
LeavingResets ==
    page.layoutMode /\ ~page'.layoutMode => page'.pointerState = IdlePointer

\* pointerup or pointercancel of the pointer of the drag
ReleaseResets ==
    \A event \in PointerEvents :
        PointerUp(event) /\ page.pointerState.pointerId = Some(event.pointerId) =>
            page'.pointerState = IdlePointer

\* the positions of the routers of the page's topology
PositionsOn(pageState) ==
    IF IsNull(pageState.topology) THEN <<>>
    ELSE [r \in 1..Len(Val(pageState.topology).routers) |->
            Val(pageState.topology).routers[r].position]

(* within one topology a position changes only under a pointermove of the    *)
(* pointer of the drag, in layout mode, and it is the dragged router's       *)
MutatedOnlyByDrag ==
    PositionsOn(page') # PositionsOn(page) =>
        \/ TopologyMessage
        \/ /\ page.layoutMode
           /\ page.pointerState.dragging
           /\ \E event \in PointerEvents :
                 /\ PointerMove(event)
                 /\ page.pointerState.pointerId = Some(event.pointerId)
           /\ \A r \in 1..Len(Val(page.topology).routers) :
                 Val(page.topology).routers[r].id # Val(page.pointerState.routerId) =>
                     PositionsOn(page')[r] = PositionsOn(page)[r]

C29_DragState ==
    /\ []DragStateConsistent
    /\ [][LeavingResets /\ ReleaseResets /\ MutatedOnlyByDrag]_vars

\* the second pointer holds A, which it has dragged to (60, 0), in layout mode
C29_Witness ==
    /\ page.layoutMode
    /\ page.pointerState.dragging
    /\ page.pointerState.pointerId = Some(2)
    /\ page.pointerState.routerId = Some("A")
    /\ page.pointerState.offset = Some([x |-> Num(-2), y |-> Num(-4)])
    /\ PositionsOn(page) = <<Point(60, 0), Point(30, 0)>>

====
